---- MODULE Spec2Model ----
(***************************************************************************)
(* Model of the BEA question-answering pipeline (src/agent).               *)
(*                                                                         *)
(* Python strings that the code parses or tests by prefix (year keys,      *)
(* descriptions, table names, scorer responses) are sequences of           *)
(* one-character strings.  Names that are only compared as a whole after   *)
(* .lower() (ParameterName) or by equality (DatasetName) are TLA+ strings. *)
(* Python objects that can be shared (dicts, lists) live in a heap of      *)
(* addresses, so that copying and aliasing are visible.                    *)
(***************************************************************************)
EXTENDS Integers, Sequences, FiniteSets, TLC

VARIABLES
    heap,           \* address -> object: the catalog and the last returned Context
    heap0,          \* the heap as it was after the catalog was loaded
    full_datasets,  \* the catalog list: addresses of Dataset objects
    last,           \* arguments and outcome of the last get_query_builder_context call
    score,          \* a score_and_select_top call: its inputs, the scorer's reply, its result
    search,         \* a smart_search call: what its external calls gave, its result
    choose,         \* a choose_datasets_to_query call: its loop position and result
    ask,            \* a BeaMcp.ask call: its position, locals, payload and call history
    lookup,         \* a build_lookup_documents call: its datasets and documents
    server          \* the JSON-RPC server: its loop, the lines read and written

vars == <<heap, heap0, full_datasets, last, score, search, choose, ask, lookup, server>>

-----------------------------------------------------------------------------
(* Bounds of the model *)

MaxVals == 2        \* longest enumerated Year value list drawn exhaustively
MaxResults == 12    \* most candidates handed to score_and_select_top
MaxParts == 2       \* longest scorer reply drawn exhaustively, in comma-separated parts
MaxHits == 3        \* longest result list a search returns
MaxDocs == 3        \* number of distinct documents in the lookup collection
MaxCands == 4       \* most candidates handed to choose_datasets_to_query
MaxTables == 3      \* most tables of the NIPA dataset

-----------------------------------------------------------------------------
(* Python string and integer helpers *)

Digits == {"0", "1", "2", "3", "4", "5", "6", "7", "8", "9"}

DigitVal(c) ==
    CASE c = "0" -> 0 [] c = "1" -> 1 [] c = "2" -> 2 [] c = "3" -> 3
      [] c = "4" -> 4 [] c = "5" -> 5 [] c = "6" -> 6 [] c = "7" -> 7
      [] c = "8" -> 8 [] c = "9" -> 9

DigitChar(d) ==
    CASE d = 0 -> "0" [] d = 1 -> "1" [] d = 2 -> "2" [] d = 3 -> "3"
      [] d = 4 -> "4" [] d = 5 -> "5" [] d = 6 -> "6" [] d = 7 -> "7"
      [] d = 8 -> "8" [] d = 9 -> "9"

IsSpace(c) == c = " "

\* str.lower() on the letters the data uses
LowerChar(c) ==
    CASE c = "T" -> "t" [] c = "A" -> "a" [] c = "L" -> "l" [] c = "X" -> "x"
      [] OTHER -> c

LowerStr(s) == [i \in 1..Len(s) |-> LowerChar(s[i])]

\* ParameterName.lower() on the parameter names of the catalog
LowerName(n) ==
    CASE n = "TableName" -> "tablename"
      [] n = "TableID" -> "tableid"
      [] n = "GeoFips" -> "geofips"
      [] n = "LineCode" -> "linecode"
      [] n = "Year" -> "year"
      [] n = "YEAR" -> "year"
      [] n = "Frequency" -> "frequency"
      [] OTHER -> n

StartsWith(s, p) == Len(p) <= Len(s) /\ SubSeq(s, 1, Len(p)) = p

RECURSIVE LStrip(_)
LStrip(s) == IF s # <<>> /\ IsSpace(Head(s)) THEN LStrip(Tail(s)) ELSE s

RECURSIVE RStrip(_)
RStrip(s) ==
    IF s # <<>> /\ IsSpace(s[Len(s)]) THEN RStrip(SubSeq(s, 1, Len(s) - 1)) ELSE s

\* str.strip()
Strip(s) == RStrip(LStrip(s))

RECURSIVE DigitsValue(_)
DigitsValue(s) ==
    IF s = <<>> THEN 0
    ELSE 10 * DigitsValue(SubSeq(s, 1, Len(s) - 1)) + DigitVal(s[Len(s)])

AllDigits(s) == s # <<>> /\ \A i \in 1..Len(s) : s[i] \in Digits

\* int(text): surrounding whitespace is ignored, one optional sign, then digits only;
\* anything else raises ValueError (ok = FALSE)
ParseInt(text) ==
    LET t == Strip(text)
        signed == t # <<>> /\ Head(t) \in {"-", "+"}
        body == IF signed THEN Tail(t) ELSE t
    IN  IF AllDigits(body)
        THEN [ok |-> TRUE,
              val |-> IF signed /\ Head(t) = "-" THEN 0 - DigitsValue(body)
                      ELSE DigitsValue(body)]
        ELSE [ok |-> FALSE, val |-> 0]

RECURSIVE NatToStr(_)
NatToStr(n) ==
    IF n < 10 THEN <<DigitChar(n)>> ELSE NatToStr(n \div 10) \o <<DigitChar(n % 10)>>

\* str(n) of an integer
IntToStr(n) == IF n < 0 THEN <<"-">> \o NatToStr(0 - n) ELSE NatToStr(n)

RECURSIVE SeqMin(_)
SeqMin(s) ==
    IF Len(s) = 1 THEN s[1]
    ELSE LET m == SeqMin(Tail(s)) IN IF s[1] <= m THEN s[1] ELSE m

RECURSIVE SeqMax(_)
SeqMax(s) ==
    IF Len(s) = 1 THEN s[1]
    ELSE LET m == SeqMax(Tail(s)) IN IF s[1] >= m THEN s[1] ELSE m

\* all sequences over S of length at most n
BoundedSeq(S, n) == UNION {[1..k -> S] : k \in 0..n}

Has(v, f) == f \in DOMAIN v

\* obj[name] = val on a dict
SetField(obj, name, val) ==
    [f \in DOMAIN obj \cup {name} |-> IF f = name THEN val ELSE obj[f]]

-----------------------------------------------------------------------------
(* Catalog data *)

T1 == <<"T", "1">>
T2 == <<"T", "2">>

\* an optional table name: None, or a string (possibly empty)
NoneT == [none |-> TRUE, v |-> <<>>]
Some(s) == [none |-> FALSE, v |-> s]

\* ParameterValue entries; a list entry that is not a dict is [str |-> text]
IsDict(v) == ~Has(v, "str")

Y2015 == <<"2", "0", "1", "5">>
Y2023 == <<"2", "0", "2", "3">>

YearEntries ==
    { [Key |-> Y2015, Desc |-> Y2015],
      [Key |-> <<" ", "7", " ">>, Desc |-> <<"x">>],
      [Key |-> <<>>, Desc |-> <<"-", "3">>],
      [Key |-> <<"A", "L", "L">>, Desc |-> <<"a", "l", "l">>],
      [Key |-> Y2015, Desc |-> Y2015, TableName |-> T1],
      [str |-> Y2023] }

\* the enumerated keys 2015..2023 of the NIPA Year parameter
YearRange(lo, hi) ==
    [i \in 1..(hi - lo + 1) |-> [Key |-> IntToStr(lo + i - 1), Desc |-> IntToStr(lo + i - 1)]]

YearLists == BoundedSeq(YearEntries, MaxVals) \cup {YearRange(2015, 2023)}

NipaDataset(years) ==
    [DatasetName |-> "NIPA",
     Parameters |-> <<
        [ParameterName |-> "TableName", ParameterIsRequiredFlag |-> "1",
         Values |-> << [TableName |-> T1, Description |-> <<"a">>],
                       [TableName |-> T2, Description |-> <<"b">>] >>],
        [ParameterName |-> "Frequency", ParameterIsRequiredFlag |-> "1",
         Values |-> << [Key |-> <<"A">>, Desc |-> <<"a">>],
                       [Key |-> <<"Q">>, Desc |-> <<"q">>] >>],
        [ParameterName |-> "Year", ParameterIsRequiredFlag |-> "1",
         Values |-> years] >>]

RegionalDataset ==
    [DatasetName |-> "Regional",
     Parameters |-> <<
        [ParameterName |-> "TableName", ParameterIsRequiredFlag |-> "1",
         Values |-> << [Key |-> T1, Desc |-> <<"a">>],
                       [Key |-> T2, Desc |-> <<"b">>] >>],
        [ParameterName |-> "LineCode", ParameterIsRequiredFlag |-> "1",
         Values |-> << [Key |-> <<"1">>, Desc |-> <<"[", "T", "1", "]", " ", "x">>],
                       [Key |-> <<"2">>, Desc |-> <<"[", "t", "2", "]", " ", "x">>],
                       [Key |-> <<"3">>, Desc |-> <<"T", "1">>],
                       [Key |-> <<"4">>, Desc |-> <<"[", "t", "1", "]">>],
                       [Key |-> <<"5">>, Desc |-> <<"[", "T", "2", "]">>, TableName |-> T1] >>],
        [ParameterName |-> "GeoFips", ParameterIsRequiredFlag |-> "1",
         Values |-> << [Key |-> <<"0">>, Desc |-> <<"x">>] >>],
        [ParameterName |-> "Industry", ParameterIsRequiredFlag |-> "0",
         Values |-> << [Key |-> <<"1">>, Desc |-> <<"a">>, TableName |-> T1],
                       [Key |-> <<"2">>, Desc |-> <<"b">>, TableName |-> T2],
                       [Key |-> <<"3">>, Desc |-> <<"x">>],
                       [str |-> <<"x">>] >>],
        [ParameterName |-> "YEAR", ParameterIsRequiredFlag |-> "0",
         Values |-> <<>>] >>]

-----------------------------------------------------------------------------
(* The heap: Python dicts and lists as objects at addresses <<region, n>>.  *)
(* A list of dicts holds their addresses (refs), a value list its entries.  *)
(* Region "cat" holds the catalog, "copy" what copy.deepcopy allocated,     *)
(* "new" the lists the call built, "ret" the dict it returned.              *)

DatasetAddr(k) == <<"cat", 100 * k>>
ParamListAddr(k) == <<"cat", 100 * k + 1>>
ParamAddr(k, j) == <<"cat", 100 * k + 10 + j>>
ValuesAddr(k, j) == <<"cat", 100 * k + 20 + j>>

\* the heap objects of the k-th catalog Dataset
DatasetObjects(ds, k) ==
    LET n == Len(ds.Parameters)
    IN  (DatasetAddr(k) :> [kind |-> "dict", DatasetName |-> ds.DatasetName,
                            Parameters |-> ParamListAddr(k)])
     @@ (ParamListAddr(k) :> [kind |-> "list", refs |-> TRUE, items |-> [j \in 1..n |-> ParamAddr(k, j)]])
     @@ [a \in {ParamAddr(k, j) : j \in 1..n} |->
            LET j == a[2] - 100 * k - 10
            IN  [kind |-> "dict",
                 ParameterName |-> ds.Parameters[j].ParameterName,
                 ParameterIsRequiredFlag |-> ds.Parameters[j].ParameterIsRequiredFlag,
                 Values |-> ValuesAddr(k, j)]]
     @@ [a \in {ValuesAddr(k, j) : j \in 1..n} |->
            [kind |-> "list", refs |-> FALSE,
             items |-> ds.Parameters[a[2] - 100 * k - 20].Values]]

RECURSIVE LoadCatalog(_, _)
\* get_all_datasets(): the heap holding the datasets k..Len(dss) of dss
LoadCatalog(dss, k) ==
    IF k > Len(dss) THEN <<>>
    ELSE DatasetObjects(dss[k], k) @@ LoadCatalog(dss, k + 1)

CatalogAddrs(h) == {a \in DOMAIN h : a[1] = "cat"}

\* the part of the heap that holds the catalog
CatalogPart(h) == [a \in CatalogAddrs(h) |-> h[a]]

\* the objects reachable from a Dataset or Context dict d
Reach(h, d) ==
    LET pl == h[d].Parameters
        ps == {h[pl].items[i] : i \in 1..Len(h[pl].items)}
    IN  {d, pl} \cup ps \cup {h[p].Values : p \in ps}

\* the value of a Parameter dict: its fields with the Values list read out
ParamValue(h, p) == [h[p] EXCEPT !.Values = h[h[p].Values].items]

\* the value of a Dataset or Context dict: its fields with the Parameters read out
Deref(h, d) ==
    LET ps == h[h[d].Parameters].items
    IN  [h[d] EXCEPT !.Parameters = [i \in 1..Len(ps) |-> ParamValue(h, ps[i])]]

-----------------------------------------------------------------------------
(* get_query_builder_context (pick_dataset.py) *)

CopyAddr(a) == <<"copy", a[2]>>

\* copy.copy(d): a new dict that shares every object d refers to
ShallowCopy(h, d) ==
    [heap |-> h @@ (CopyAddr(d) :> h[d]), addr |-> CopyAddr(d)]

\* YearScan that skips an entry it cannot use and goes on (a partial collapse)
RECURSIVE YearScanSkipping(_, _, _)
YearScanSkipping(values, i, years) ==
    IF i > Len(values) THEN [simple_year |-> TRUE, years |-> years]
    ELSE LET v == values[i]
             good == IsDict(v) /\ DOMAIN v \subseteq {"Key", "Desc"}
                        /\ ParseInt(IF Has(v, "Key") /\ v.Key # <<>> THEN v.Key
                                    ELSE IF Has(v, "Desc") THEN v.Desc
                                    ELSE <<"N", "o", "n", "e">>).ok
         IN  IF good
             THEN YearScanSkipping(values, i + 1,
                    Append(years, ParseInt(IF Has(v, "Key") /\ v.Key # <<>> THEN v.Key
                                           ELSE v.Desc).val))
             ELSE YearScanSkipping(values, i + 1, years)

\* the first and the last listed year instead of the least and the greatest
CollapsedYearsFirstLast(years) ==
    << [MinYear |-> IntToStr(years[1])], [MaxYear |-> IntToStr(years[Len(years)])] >>

\* copy.deepcopy(d): a copy of every object reachable from d, at fresh addresses
DeepCopy(h, d) ==
    LET src == Reach(h, d)
        Image(a) ==
            LET o == h[a]
            IN  IF Has(o, "Parameters") THEN [o EXCEPT !.Parameters = CopyAddr(@)]
                ELSE IF Has(o, "Values") THEN [o EXCEPT !.Values = CopyAddr(@)]
                ELSE IF o.refs
                     THEN [o EXCEPT !.items = [i \in 1..Len(@) |-> CopyAddr(@[i])]]
                ELSE o
    IN  [heap |-> h @@ [c \in {CopyAddr(a) : a \in src} |->
                            Image(<<d[1], c[2]>>)],
         addr |-> CopyAddr(d)]

\* matching = [d for d in full_datasets if d.get('DatasetName') == dataset_name]
Matching(h, fds, dataset_name) ==
    SelectSeq(fds, LAMBDA d : h[d].DatasetName = dataset_name)

\* "if table_name is None": an empty table name is not returned as is
ReturnsAsIsNoneOnly(table_name) == table_name.none

\* "if not table_name": None or the empty string
ReturnsAsIs(table_name) == table_name.none \/ table_name.v = <<>>

IsTableParam(P) == LowerName(P.ParameterName) \in {"tablename", "tableid"}

\* v.get('TableName', v.get('Key', None)) == table_name
TableKeyMatches(v, table_name) ==
    /\ IsDict(v)
    /\ IF Has(v, "TableName") THEN v.TableName = table_name
       ELSE Has(v, "Key") /\ v.Key = table_name

\* v.get('TableName') == table_name
TableNameMatches(v, table_name) ==
    IsDict(v) /\ Has(v, "TableName") /\ v.TableName = table_name

\* v.get('Desc', '').startswith(f"[{table_name}]"): the case has to match
LineCodeMatchesCase(v, table_name) ==
    /\ IsDict(v)
    /\ StartsWith(IF Has(v, "Desc") THEN v.Desc ELSE <<>>,
                  <<"[">> \o table_name \o <<"]">>)

\* v.get('Desc', '').lower().startswith(f"[{table_name.lower()}]")
LineCodeMatches(v, table_name) ==
    /\ IsDict(v)
    /\ StartsWith(LowerStr(IF Has(v, "Desc") THEN v.Desc ELSE <<>>),
                  <<"[">> \o LowerStr(table_name) \o <<"]">>)

\* str(v.get('Key') or v.get('Desc'))
YearRaw(v) ==
    IF Has(v, "Key") /\ v.Key # <<>> THEN v.Key
    ELSE IF Has(v, "Desc") THEN v.Desc
    ELSE <<"N", "o", "n", "e">>

RECURSIVE YearScan(_, _, _)
\* the loop over the Year values: stops at the first entry that is no dict, has a key
\* other than Key and Desc, or does not parse
YearScan(values, i, years) ==
    IF i > Len(values) THEN [simple_year |-> TRUE, years |-> years]
    ELSE LET v == values[i]
         IN  IF ~IsDict(v) THEN [simple_year |-> FALSE, years |-> years]
             ELSE IF ~(DOMAIN v \subseteq {"Key", "Desc"})
                  THEN [simple_year |-> FALSE, years |-> years]
             ELSE IF ~ParseInt(YearRaw(v)).ok
                  THEN [simple_year |-> FALSE, years |-> years]
             ELSE YearScan(values, i + 1, Append(years, ParseInt(YearRaw(v)).val))

\* p['Values'] = [{'MinYear': str(min_y)}, {'MaxYear': str(max_y)}]
CollapsedYears(years) ==
    << [MinYear |-> IntToStr(SeqMin(years))], [MaxYear |-> IntToStr(SeqMax(years))] >>

\* The value list a parameter ends the loop body with: set TRUE when p['Values'] was
\* assigned, with the list assigned last and the note (if any)
ParamOutcome(P, values, table_name, for_eval) ==
    LET lname == LowerName(P.ParameterName)
        keep == [set |-> FALSE, items |-> values, note |-> ""]
        byTable ==
            IF \E i \in 1..Len(values) : IsDict(values[i]) /\ Has(values[i], "TableName")
            THEN [set |-> TRUE, note |-> "",
                  items |-> SelectSeq(values, LAMBDA v : TableNameMatches(v, table_name))]
            ELSE keep
        byLine ==
            IF lname = "linecode"
            THEN [set |-> TRUE, note |-> "",
                  items |-> SelectSeq(values, LAMBDA v : LineCodeMatches(v, table_name))]
            ELSE byTable
        scan == YearScan(values, 1, <<>>)
        byYear ==
            IF lname = "year" /\ scan.simple_year /\ scan.years # <<>>
            THEN [set |-> TRUE, note |-> "", items |-> CollapsedYears(scan.years)]
            ELSE byLine
    IN  IF values = <<>> THEN keep
        ELSE IF lname = "geofips" /\ for_eval
             THEN [set |-> TRUE, items |-> <<>>,
                   note |-> "Too many GeoFIPS values to list; omitted for evaluation."]
        ELSE IF lname \in {"tablename", "tableid"}
             THEN [set |-> TRUE,
                   items |-> SelectSeq(values, LAMBDA v : TableKeyMatches(v, table_name)),
                   note |-> "Table parameter filtered to the selected table."]
        ELSE byYear

RECURSIVE FilterParams(_, _, _, _)
\* the loop "for p in filtered_params" on the heap: the j-th parameter dict is written
\* in place, a list it is given is allocated at <<"new", j>>
FilterParams(h, ps, j, arg) ==
    IF j > Len(ps) THEN h
    ELSE LET p == ps[j]
             out == ParamOutcome(h[p], h[h[p].Values].items, arg.table_name, arg.for_eval)
             withValues == [h[p] EXCEPT !.Values = <<"new", j>>]
             written == IF out.note = "" THEN withValues
                        ELSE SetField(withValues, "ValuesNote", out.note)
         IN  IF out.set
             THEN FilterParams(
                    [h EXCEPT ![p] = written]
                        @@ (<<"new", j>> :> [kind |-> "list", refs |-> FALSE, items |-> out.items]),
                    ps, j + 1, arg)
             ELSE FilterParams(h, ps, j + 1, arg)

\* get_query_builder_context(dataset_name, table_name, full_datasets, for_eval) on heap h:
\* status "raised" for the ValueError, else "ok" with the address of the returned dict
GetQueryBuilderContext(h, fds, dataset_name, table_name, for_eval) ==
    LET matching == Matching(h, fds, dataset_name)
        copied == DeepCopy(h, matching[1])
        hc == copied.heap
        dataset == copied.addr
        params == hc[hc[dataset].Parameters].items
        filtered_params ==
            SelectSeq(params, LAMBDA p : ~(IsTableParam(hc[p]) /\ for_eval))
        hf == FilterParams(hc, filtered_params, 1,
                           [table_name |-> table_name.v, for_eval |-> for_eval])
        result == SetField([hf[dataset] EXCEPT !.Parameters = <<"new", 0>>],
                           "SelectedTableName", table_name.v)
    IN  IF matching = <<>>
        THEN [status |-> "raised", heap |-> h, addr |-> <<"none", 0>>]
        ELSE IF ReturnsAsIs(table_name)
             THEN [status |-> "ok", heap |-> hc, addr |-> dataset]
        ELSE [status |-> "ok",
              heap |-> hf @@ (<<"new", 0>> :> [kind |-> "list", refs |-> TRUE,
                                              items |-> filtered_params])
                         @@ (<<"ret", 0>> :> result),
              addr |-> <<"ret", 0>>]

-----------------------------------------------------------------------------
(* Context building over a loaded catalog: any sequence of calls, and a caller *)
(* that mutates what it was returned.                                          *)

DatasetNames == {"NIPA", "Regional", "Ghost"}
TableNames == {NoneT, Some(<<>>), Some(T1), Some(T2)}

\* the value of a variable the specification at hand does not use
Idle == [status |-> "idle"]

NoCall ==
    [status |-> "none", dataset_name |-> "", table_name |-> NoneT, for_eval |-> FALSE,
     addr |-> <<"none", 0>>]

CtxInit ==
    /\ \E years \in YearLists :
           heap = LoadCatalog(<<NipaDataset(years), RegionalDataset>>, 1)
    /\ heap0 = heap
    /\ full_datasets = <<DatasetAddr(1), DatasetAddr(2)>>
    /\ last = NoCall
    /\ score = Idle
    /\ search = Idle
    /\ choose = Idle
    /\ ask = Idle
    /\ lookup = Idle
    /\ server = Idle

\* a call of get_query_builder_context; the Context returned before is no longer held
CallContext(dataset_name, table_name, for_eval) ==
    LET r == GetQueryBuilderContext(CatalogPart(heap), full_datasets,
                                    dataset_name, table_name, for_eval)
    IN  /\ heap' = r.heap
        /\ last' = [status |-> r.status, dataset_name |-> dataset_name,
                    table_name |-> table_name, for_eval |-> for_eval, addr |-> r.addr]
        /\ UNCHANGED <<heap0, full_datasets, score, search, choose, ask, lookup, server>>

\* the caller mutates an object of the returned Context in place (list.clear() on a
\* list, obj['Touched'] = True on a dict) and lets go of the Context
MutateContext(a) ==
    /\ last.status = "ok"
    /\ a \in Reach(heap, last.addr)
    /\ heap' = CatalogPart([heap EXCEPT ![a] =
                    IF @.kind = "list" THEN [@ EXCEPT !.items = <<>>]
                    ELSE SetField(@, "Touched", TRUE)])
    /\ last' = [last EXCEPT !.status = "mutated", !.addr = <<"none", 0>>]
    /\ UNCHANGED <<heap0, full_datasets, score, search, choose, ask, lookup, server>>

CtxNext ==
    \/ \E dataset_name \in DatasetNames, table_name \in TableNames, for_eval \in BOOLEAN :
          CallContext(dataset_name, table_name, for_eval)
    \/ \E a \in DOMAIN heap : MutateContext(a)

SpecCtx == CtxInit /\ [][CtxNext]_vars

-----------------------------------------------------------------------------
(* Properties of get_query_builder_context *)

TableScoped == last.status = "ok" /\ ~ReturnsAsIs(last.table_name)

\* the catalog Dataset the last call matched, as loaded
MatchedDataset == Deref(heap0, Matching(heap0, full_datasets, last.dataset_name)[1])

\* the Context the last call returned
ReturnedContext == Deref(heap, last.addr)

\* the catalog's value list of the parameter called name in the matched Dataset
CatalogValues(name) ==
    LET ps == MatchedDataset.Parameters
    IN  ps[CHOOSE i \in 1..Len(ps) : ps[i].ParameterName = name].Values

\* the entry is a {Key, Desc}-only dict whose year parses as an integer
SimpleYearEntry(v) ==
    IsDict(v) /\ DOMAIN v \subseteq {"Key", "Desc"} /\ ParseInt(YearRaw(v)).ok

YearParams(ctx) ==
    {i \in 1..Len(ctx.Parameters) : LowerName(ctx.Parameters[i].ParameterName) = "year"}

\* C1: after any sequence of get_query_builder_context calls, failed ones included,
\* and whatever the caller did to a returned Context, the catalog list and every
\* catalog object are as they were loaded, and a returned Context reaches no catalog
\* object
C1_CatalogNeverMutatedNorAliased ==
    /\ full_datasets = <<DatasetAddr(1), DatasetAddr(2)>>
    /\ CatalogPart(heap) = heap0
    /\ last.status = "ok" => Reach(heap, last.addr) \cap CatalogAddrs(heap) = {}

\* a table-scoped Context was returned, then mutated by its caller
C1_Witness ==
    /\ last.status = "mutated"
    /\ last.table_name = Some(T1)
    /\ last.dataset_name = "Regional"

\* C2: the call raises exactly when no catalog Dataset has the name; with a table name
\* of None or '' it returns a fresh copy equal to the matched Dataset, no parameter
\* dropped, filtered, collapsed or annotated, no SelectedTableName, for either for_eval
C2_NotFoundOrPlainCopy ==
    /\ last.status \in {"ok", "raised"} =>
          (last.status = "raised" <=>
             \A i \in 1..Len(full_datasets) :
                heap0[full_datasets[i]].DatasetName # last.dataset_name)
    /\ (last.status = "ok" /\ (last.table_name.none \/ last.table_name.v = <<>>)) =>
          /\ ReturnedContext = MatchedDataset
          /\ ~Has(heap[last.addr], "SelectedTableName")
          /\ last.addr \notin DOMAIN heap0

\* the empty table name with for_eval set returned the Regional dataset
C2_Witness ==
    /\ last.status = "ok"
    /\ last.table_name = Some(<<>>)
    /\ last.for_eval
    /\ last.dataset_name = "Regional"
    /\ Len(ReturnedContext.Parameters) = 5

\* C3 as claimed: with any entry that is no simple parseable {Key, Desc} pair, the Year
\* list of a table-scoped Context is the catalog's list, element for element
C3_YearListUntouched ==
    TableScoped =>
        \A i \in YearParams(ReturnedContext) :
            LET P == ReturnedContext.Parameters[i]
                orig == CatalogValues(P.ParameterName)
            IN  (\E k \in 1..Len(orig) : ~SimpleYearEntry(orig[k])) => P.Values = orig

\* C3 as amended: with such an entry nothing is collapsed: the Year list is the
\* catalog's list when no entry carries a TableName, else the sub-list of the entries
\* whose TableName is the selected table
C3_YearCollapseAllOrNothing ==
    TableScoped =>
        \A i \in YearParams(ReturnedContext) :
            LET P == ReturnedContext.Parameters[i]
                orig == CatalogValues(P.ParameterName)
                scoped == \E k \in 1..Len(orig) : IsDict(orig[k]) /\ Has(orig[k], "TableName")
            IN  (\E k \in 1..Len(orig) : ~SimpleYearEntry(orig[k])) =>
                    P.Values = IF scoped
                               THEN SelectSeq(orig, LAMBDA v :
                                        IsDict(v) /\ Has(v, "TableName")
                                            /\ v.TableName = last.table_name.v)
                               ELSE orig

\* a parseable year next to an unparseable one: both are still listed
C3_Witness ==
    /\ TableScoped
    /\ last.dataset_name = "NIPA"
    /\ CatalogValues("Year") = << [Key |-> Y2015, Desc |-> Y2015],
                                  [Key |-> <<"A", "L", "L">>, Desc |-> <<"a", "l", "l">>] >>
    /\ ReturnedContext.Parameters[Len(ReturnedContext.Parameters)].Values
          = CatalogValues("Year")

\* C4: a non-empty Year list of simple parseable entries becomes exactly
\* [{MinYear: str(min)}, {MaxYear: str(max)}] over the listed years, in any order
C4_YearCollapsedToMinMax ==
    TableScoped =>
        \A i \in YearParams(ReturnedContext) :
            LET P == ReturnedContext.Parameters[i]
                orig == CatalogValues(P.ParameterName)
                listed == {ParseInt(YearRaw(orig[k])).val : k \in 1..Len(orig)}
                least == CHOOSE y \in listed : \A z \in listed : y <= z
                greatest == CHOOSE y \in listed : \A z \in listed : y >= z
            IN  (orig # <<>> /\ \A k \in 1..Len(orig) : SimpleYearEntry(orig[k])) =>
                    P.Values = << [MinYear |-> IntToStr(least)],
                                  [MaxYear |-> IntToStr(greatest)] >>

\* the keys 2015..2023 of NIPA table T1 collapsed to 2015 and 2023
C4_Witness ==
    /\ TableScoped
    /\ last.dataset_name = "NIPA"
    /\ CatalogValues("Year") = YearRange(2015, 2023)
    /\ \E i \in YearParams(ReturnedContext) :
          ReturnedContext.Parameters[i].Values = << [MinYear |-> Y2015], [MaxYear |-> Y2023] >>

-----------------------------------------------------------------------------
(* score_and_select_top (pick_dataset.py) *)

RECURSIVE Split(_, _, _)
\* text.split(sep): cur is the part being read
Split(text, sep, cur) ==
    IF text = <<>> THEN <<cur>>
    ELSE IF Head(text) = sep THEN <<cur>> \o Split(Tail(text), sep, <<>>)
    ELSE Split(Tail(text), sep, Append(cur, Head(text)))

RECURSIVE Join(_, _)
\* sep.join(parts)
Join(parts, sep) ==
    IF parts = <<>> THEN <<>>
    ELSE IF Len(parts) = 1 THEN parts[1]
    ELSE parts[1] \o <<sep>> \o Join(Tail(parts), sep)

\* list.index(x): 0-based position of the first x
IndexOf(s, x) == (CHOOSE k \in 1..Len(s) : s[k] = x /\ \A j \in 1..(k - 1) : s[j] # x) - 1

\* s[:n] for n >= 0
Prefix(s, n) == SubSeq(s, 1, IF n < Len(s) THEN n ELSE Len(s))

RECURSIVE SelectedIndices(_, _)
\* the 0-based indices parsed from the parts of the reply; a part that is no integer or
\* is out of 1..n is passed over
SelectedIndices(parts, n) ==
    IF parts = <<>> THEN <<>>
    ELSE LET num == ParseInt(Strip(Head(parts)))
         IN  (IF num.ok /\ 1 <= num.val /\ num.val <= n THEN <<num.val - 1>> ELSE <<>>)
                \o SelectedIndices(Tail(parts), n)

\* 100 - (rank * 10)
RankConfidence(rank) == 100 - (rank * 10)

\* 100 - (i * 10), without the floor at 0
FallbackConfidenceUnclamped(i) == 100 - (i * 10)

\* max(0, 100 - (i * 10))
FallbackConfidence(i) == IF 100 - (i * 10) > 0 THEN 100 - (i * 10) ELSE 0

\* score_and_select_top(question, results, top_n) when the scorer replies llm.content
\* (llm.ok) or raises (~llm.ok): the pair (top results, all scored)
ScoreAndSelectTop(results, top_n, llm) ==
    LET n == Len(results)
        parsed == SelectedIndices(Split(Strip(llm.content), ",", <<>>), n)
        selected_indices ==
            IF parsed = <<>>
            THEN [k \in 1..(IF top_n < n THEN top_n ELSE n) |-> k - 1]
            ELSE parsed
        chosen == Prefix(selected_indices, top_n)
        top_results ==
            [k \in 1..Len(chosen) |->
                SetField(results[chosen[k] + 1], "confidence", RankConfidence(k - 1))]
        all_scored ==
            [i \in 1..n |->
                SetField(results[i], "confidence",
                    IF \E k \in 1..Len(selected_indices) : selected_indices[k] = i - 1
                    THEN RankConfidence(IndexOf(selected_indices, i - 1))
                    ELSE 0)]
        scored ==
            [i \in 1..n |-> SetField(results[i], "confidence", FallbackConfidence(i - 1))]
    IN  IF results = <<>> THEN [top |-> <<>>, all |-> <<>>]
        ELSE IF llm.ok THEN [top |-> top_results, all |-> all_scored]
        ELSE [top |-> Prefix(scored, top_n), all |-> scored]

\* a search result document
Doc(i) == [_id |-> i, dataset_name |-> "NIPA", table_name |-> T1]

\* the parts a scorer reply is drawn from: indices, padded, out of range, no number
ReplyParts ==
    { <<"1">>, <<" ", "2", " ">>, <<"3">>, <<"0">>, <<"1", "4">>, <<"x">> }

\* the indices lo, lo+1, .. or hi, hi-1, .. as text
Counting(lo, hi, up) ==
    [k \in 1..(hi - lo + 1) |-> IntToStr(IF up THEN lo + k - 1 ELSE hi - k + 1)]

\* replies as the scorer is asked to give them: a ranking of the first k tables,
\* ascending, descending, or with the first index given twice
Rankings ==
    UNION { { Counting(1, k, TRUE), Counting(1, k, FALSE),
              <<IntToStr(1)>> \o Counting(1, k, TRUE) } : k \in 1..(MaxResults + 1) }

Replies == {Join(parts, ",") : parts \in BoundedSeq(ReplyParts, MaxParts) \cup Rankings}

TopNs == {0, 1, 3, 10, 12}

ScoreInit ==
    /\ \E n \in 0..MaxResults, top_n \in TopNs,
          llm \in {[ok |-> FALSE, content |-> <<>>]}
                    \cup {[ok |-> TRUE, content |-> c] : c \in Replies} :
          score = [status |-> "called", results |-> [i \in 1..n |-> Doc(i)],
                   top_n |-> top_n, llm |-> llm]
    /\ heap = <<>>
    /\ heap0 = <<>>
    /\ full_datasets = <<>>
    /\ last = Idle
    /\ search = Idle
    /\ choose = Idle
    /\ ask = Idle
    /\ lookup = Idle
    /\ server = Idle

ScoreCall ==
    /\ score.status = "called"
    /\ LET r == ScoreAndSelectTop(score.results, score.top_n, score.llm)
       IN  score' = [score EXCEPT !.status = "done"] @@ [top |-> r.top, all |-> r.all]
    /\ UNCHANGED <<heap, heap0, full_datasets, last, search, choose, ask, lookup, server>>

ScoreNext == ScoreCall

SpecScore == ScoreInit /\ [][ScoreNext]_vars

\* C9: every candidate of the top list and of the full scored list has a confidence
\* in [0,100], whatever the scorer replied and whatever top_n
C9_ConfidenceInRange ==
    score.status = "done" =>
        /\ \A k \in 1..Len(score.top) : score.top[k].confidence \in 0..100
        /\ \A i \in 1..Len(score.all) : score.all[i].confidence \in 0..100

\* C10: when the scoring call raises, the full scored list is the input candidates in
\* input order, each with a confidence in [0,100], and the top list is the first
\* min(top_n, n) of them
C10_FallbackKeepsEveryCandidate ==
    (score.status = "done" /\ ~score.llm.ok) =>
        LET n == Len(score.results)
            m == IF score.top_n < n THEN score.top_n ELSE n
        IN  /\ Len(score.all) = n
            /\ \A i \in 1..n :
                  /\ score.all[i].confidence \in 0..100
                  /\ [f \in DOMAIN score.results[i] |-> score.all[i][f]] = score.results[i]
                  /\ DOMAIN score.all[i] = DOMAIN score.results[i] \cup {"confidence"}
            /\ \A i \in 1..(n - 1) : score.all[i].confidence >= score.all[i + 1].confidence
            /\ score.top = SubSeq(score.all, 1, m)

\* twelve candidates, the scorer down: the twelfth is kept with confidence 0
C10_Witness ==
    /\ score.status = "done"
    /\ ~score.llm.ok
    /\ Len(score.results) = 12
    /\ score.top_n = 10
    /\ Len(score.top) = 10
    /\ score.all[12].confidence = 0
    /\ score.all[2].confidence = 90

-----------------------------------------------------------------------------
(* smart_search (pick_dataset.py) *)

RECURSIVE EveryOccurrence(_, _)
\* order.append(doc_id) for every result, seen before or not
EveryOccurrence(combined, order) ==
    IF combined = <<>> THEN order
    ELSE EveryOccurrence(Tail(combined), Append(order, Head(combined)._id))

RECURSIVE FirstSeenOrder(_, _)
\* the loop over results_full + results_short: order lists each _id once, where it was
\* first seen
FirstSeenOrder(combined, order) ==
    IF combined = <<>> THEN order
    ELSE LET doc_id == Head(combined)._id
         IN  IF \E k \in 1..Len(order) : order[k] = doc_id
             THEN FirstSeenOrder(Tail(combined), order)
             ELSE FirstSeenOrder(Tail(combined), Append(order, doc_id))

\* seen[doc_id]['count']
SeenCount(combined, doc_id) ==
    Cardinality({k \in 1..Len(combined) : combined[k]._id = doc_id})

\* seen[doc_id]['doc']: the first result with that _id
SeenDoc(combined, doc_id) ==
    combined[CHOOSE k \in 1..Len(combined) :
                /\ combined[k]._id = doc_id
                /\ \A j \in 1..(k - 1) : combined[j]._id # doc_id]

\* the sort key with the count left out: first appearance only
KeyLessByPosition(count_a, pos_a, count_b, pos_b) == pos_a < pos_b

\* (-count, first_position) of a sorts before that of b
KeyLess(count_a, pos_a, count_b, pos_b) ==
    0 - count_a < 0 - count_b \/ (count_a = count_b /\ pos_a < pos_b)

RECURSIVE InsertSorted(_, _)
\* x put into the sorted list s, after every element whose key does not sort after its
InsertSorted(s, x) ==
    IF s = <<>> THEN <<x>>
    ELSE IF KeyLess(x.count, x.first_position, Head(s).count, Head(s).first_position)
         THEN <<x>> \o s
    ELSE <<Head(s)>> \o InsertSorted(Tail(s), x)

RECURSIVE SortedByKey(_)
\* sorted(order, key=lambda doc_id: (-count, first_position)): a stable sort
SortedByKey(s) ==
    IF s = <<>> THEN <<>>
    ELSE InsertSorted(SortedByKey(SubSeq(s, 1, Len(s) - 1)), s[Len(s)])

\* lines 122-136: deduplicate on _id, sort by (-count, first position)
MergeResults(results_full, results_short) ==
    LET combined == results_full \o results_short
        order == FirstSeenOrder(combined, <<>>)
        seen == [k \in 1..Len(order) |->
                    [doc |-> SeenDoc(combined, order[k]),
                     count |-> SeenCount(combined, order[k]),
                     first_position |-> k - 1]]
        sorted_ids == SortedByKey(seen)
    IN  [k \in 1..Len(sorted_ids) |-> sorted_ids[k].doc]

\* what the external calls of one smart_search run do: fail names the first call that
\* fails ("none": no call fails), full / short / listing are the lists the primary
\* search, the short-description search and the dataset listing return
SearchRuns ==
    LET Lists == BoundedSeq({Doc(i) : i \in 1..MaxDocs}, MaxHits)
    IN  {[fail |-> "none", full |-> f, short |-> s, listing |-> <<>>] :
            f \in Lists, s \in Lists}
        \cup {[fail |-> "none", full |-> <<>>, short |-> <<>>, listing |-> l] : l \in Lists}
        \cup {[fail |-> x, full |-> <<>>, short |-> <<>>, listing |-> <<>>] :
                x \in {"embed_query", "extract_data_item", "embed_data_item",
                       "search_full", "search_short", "listing"}}

\* smart_search(query, dataset_name) in the run env: "raised" when an embedding or a
\* search raises, "exit" when extract_data_item ends the process with exit(1)
SmartSearch(env) ==
    LET both_empty == env.full = <<>> /\ env.short = <<>>
        results_full == IF both_empty THEN env.listing ELSE env.full
    IN  IF env.fail = "embed_query" THEN [status |-> "raised", results |-> <<>>]
        ELSE IF env.fail = "extract_data_item" THEN [status |-> "exit", results |-> <<>>]
        ELSE IF env.fail \in {"embed_data_item", "search_full", "search_short"}
             THEN [status |-> "raised", results |-> <<>>]
        ELSE IF both_empty /\ env.fail = "listing"
             THEN [status |-> "raised", results |-> <<>>]
        ELSE [status |-> "ok", results |-> MergeResults(results_full, env.short)]

SearchInit ==
    /\ \E env \in SearchRuns : search = [status |-> "called", env |-> env]
    /\ heap = <<>>
    /\ heap0 = <<>>
    /\ full_datasets = <<>>
    /\ last = Idle
    /\ score = Idle
    /\ choose = Idle
    /\ ask = Idle
    /\ lookup = Idle
    /\ server = Idle

SearchCall ==
    /\ search.status = "called"
    /\ LET r == SmartSearch(search.env)
       IN  search' = [status |-> r.status, env |-> search.env, results |-> r.results]
    /\ UNCHANGED <<heap, heap0, full_datasets, last, score, choose, ask, lookup, server>>

SearchNext == SearchCall

SpecSearch == SearchInit /\ [][SearchNext]_vars

\* the two lists the merge was given: the dataset listing stands in for the primary
\* list when both searches came back empty
MergedFull ==
    IF search.env.full = <<>> /\ search.env.short = <<>>
    THEN search.env.listing ELSE search.env.full

MergedShort == search.env.short

IdsOf(list) == {list[k]._id : k \in 1..Len(list)}

NoRepeat(list) == \A j, k \in 1..Len(list) : list[j]._id = list[k]._id => j = k

\* occurrences of the identity across both lists
Occurrences(doc_id) == SeenCount(MergedFull \o MergedShort, doc_id)

\* 1-based position of the first occurrence in the primary list followed by the short
FirstAppearance(doc_id) ==
    CHOOSE k \in 1..Len(MergedFull \o MergedShort) :
        /\ (MergedFull \o MergedShort)[k]._id = doc_id
        /\ \A j \in 1..(k - 1) : (MergedFull \o MergedShort)[j]._id # doc_id

InBoth(doc_id) == doc_id \in IdsOf(MergedFull) \cap IdsOf(MergedShort)

\* C7: the merged list holds each _id at most once, is no longer than the two result
\* lists together, and holds every _id of either list
C7_MergedIdsDistinctAndComplete ==
    search.status = "ok" =>
        /\ NoRepeat(search.results)
        /\ Len(search.results) <= Len(MergedFull) + Len(MergedShort)
        /\ IdsOf(MergedFull) \cup IdsOf(MergedShort) \subseteq IdsOf(search.results)

\* a primary list that repeats document 1, and document 2 in both lists
C7_Witness ==
    /\ search.status = "ok"
    /\ search.env.full = <<Doc(1), Doc(2), Doc(1)>>
    /\ search.env.short = <<Doc(2), Doc(3)>>
    /\ Len(search.results) = 3

\* C8 as claimed: for any two lists, every document of both lists precedes every
\* document of only one list, and documents with the same occurrence count keep the
\* order of their first appearance
C8_BothListsFirst ==
    search.status = "ok" =>
        \A a, b \in 1..Len(search.results) :
            LET x == search.results[a]._id
                y == search.results[b]._id
            IN  /\ (InBoth(x) /\ ~InBoth(y)) => a < b
                /\ (a < b /\ Occurrences(x) = Occurrences(y)) =>
                      FirstAppearance(x) < FirstAppearance(y)

\* C8 as amended: the merged list is in descending order of occurrence count over the
\* two lists, equal counts in order of first appearance; when neither list repeats an
\* identity, every document of both lists precedes every document of only one
C8_ByOccurrencesThenFirstSeen ==
    search.status = "ok" =>
        \A a, b \in 1..Len(search.results) :
            LET x == search.results[a]._id
                y == search.results[b]._id
            IN  /\ a < b => Occurrences(x) >= Occurrences(y)
                /\ (a < b /\ Occurrences(x) = Occurrences(y)) =>
                      FirstAppearance(x) < FirstAppearance(y)
                /\ (NoRepeat(MergedFull) /\ NoRepeat(MergedShort)
                        /\ InBoth(x) /\ ~InBoth(y)) => a < b

\* document 2, found by both searches, moved ahead of document 1
C8_Witness ==
    /\ search.status = "ok"
    /\ search.env.full = <<Doc(1), Doc(2)>>
    /\ search.env.short = <<Doc(2), Doc(3)>>
    /\ search.results = <<Doc(2), Doc(1), Doc(3)>>

-----------------------------------------------------------------------------
(* choose_datasets_to_query (pick_dataset.py) *)

\* digits = ''.join(ch for ch in content if ch.isdigit()); int(digits[:3]) if digits else 0;
\* a score above 100 becomes 100
ParseScore(content) ==
    LET digits == SelectSeq(Strip(content), LAMBDA ch : ch \in Digits)
        parsed == IF digits # <<>> THEN DigitsValue(Prefix(digits, 3)) ELSE 0
    IN  IF parsed > 100 THEN 100 ELSE parsed

\* the error text of a failed medium-model call, as the set of the phrases it holds:
\* 'maximum context length' in msg or 'context_length' in msg
\*     or 'token' in msg and 'exceed' in msg
IsCapacityError(msg) ==
    \/ "maximum context length" \in msg
    \/ "context_length" \in msg
    \/ ("token" \in msg /\ "exceed" \in msg)

RECURSIVE InsertByScore(_, _)
\* x put into the list s sorted by descending score, after the entries of equal score
InsertByScore(s, x) ==
    IF s = <<>> THEN <<x>>
    ELSE IF x.score > Head(s).score THEN <<x>> \o s
    ELSE <<Head(s)>> \o InsertByScore(Tail(s), x)

RECURSIVE SortedByScore(_)
\* scored.sort(key=lambda x: x['score'], reverse=True): stable
SortedByScore(s) ==
    IF s = <<>> THEN <<>>
    ELSE InsertByScore(SortedByScore(SubSeq(s, 1, Len(s) - 1)), s[Len(s)])

\* the near ties taken from the whole ranked list, the top entry not left out
TiesOfAll(sorted, tie_threshold) ==
    SelectSeq(sorted, LAMBDA e : (sorted[1].score - e.score) <= tie_threshold)

\* ties = [s for s in scored[1:] if (top['score'] - s['score']) <= tie_threshold]
TiesOf(sorted, tie_threshold) ==
    SelectSeq(Tail(sorted), LAMBDA e : (sorted[1].score - e.score) <= tie_threshold)

\* lines 375-386: the selection returned for the scored entries; top is <<>> for None
Selection(scored, tie_threshold) ==
    IF scored = <<>> THEN [top |-> <<>>, ties |-> <<>>, all_scored |-> <<>>]
    ELSE LET sorted == SortedByScore(scored)
         IN  [top |-> <<sorted[1]>>, ties |-> TiesOf(sorted, tie_threshold),
              all_scored |-> sorted]

\* the catalog the candidates are ranked against
RankingCatalog == LoadCatalog(<<NipaDataset(YearRange(2015, 2016)), RegionalDataset>>, 1)

\* stage-1 survivors: with a table, without one, of a dataset the catalog lacks, and
\* with no dataset_name
Candidates ==
    { [dataset_name |-> "NIPA", table_name |-> T1],
      [dataset_name |-> "Ghost", table_name |-> T1],
      [table_name |-> T1] }

\* replies of the stage-2 scorer
ScoreReplies ==
    { <<"9", "0">>, <<"8", "8">>, <<" ", "7", "5">>, <<"4", "0">>,
      <<"n", "/", "a">>, <<"8", "/", "1", "0">> }

\* error texts of a failing scorer call
ErrorTexts ==
    { {"maximum context length"}, {"context_length"}, {"token", "exceed"},
      {"token"}, {} }

TieThresholds == {0, 3}

ChooseInit ==
    /\ \E cands \in BoundedSeq(Candidates, MaxCands), th \in TieThresholds :
          choose = [status |-> "running", candidate_results |-> cands,
                    tie_threshold |-> th, i |-> 1, scored |-> <<>>,
                    medium |-> "none", large |-> "none", content |-> NoneT]
    /\ heap = RankingCatalog
    /\ heap0 = RankingCatalog
    /\ full_datasets = <<DatasetAddr(1), DatasetAddr(2)>>
    /\ last = Idle
    /\ score = Idle
    /\ search = Idle
    /\ ask = Idle
    /\ lookup = Idle
    /\ server = Idle

\* ds.get('dataset_name'): None and '' both read as ""
DatasetNameOf(ds) == IF Has(ds, "dataset_name") THEN ds.dataset_name ELSE ""

\* ds.get('table_name')
TableNameOf(ds) == IF Has(ds, "table_name") THEN Some(ds.table_name) ELSE NoneT

\* the entry appended to scored for candidate ds and the reply content
ScoredEntry(ds, content) ==
    [dataset_name |-> DatasetNameOf(ds), table_name |-> TableNameOf(ds),
     score |-> ParseScore(content)]

\* the large scorer is asked after any failure of the medium one
ScoreReplyLargeAfterAnyFailure(medium, large) ==
    IF medium.ok
    THEN [content |-> Some(medium.content), medium |-> "ok", large |-> "none"]
    ELSE IF large.ok
         THEN [content |-> Some(large.content), medium |-> "failed", large |-> "ok"]
    ELSE [content |-> NoneT, medium |-> "failed", large |-> "failed"]

\* lines 348-362: the medium scorer replies (medium.ok) or raises medium.msg; on a
\* capacity error the large scorer is asked and replies or raises; the outcome is the
\* reply content to parse, or none when the candidate is passed over
ScoreReply(medium, large) ==
    IF medium.ok
    THEN [content |-> Some(medium.content), medium |-> "ok", large |-> "none"]
    ELSE IF IsCapacityError(medium.msg)
         THEN IF large.ok
              THEN [content |-> Some(large.content), medium |-> "capacity", large |-> "ok"]
              ELSE [content |-> NoneT, medium |-> "capacity", large |-> "failed"]
         ELSE [content |-> NoneT, medium |-> "failed", large |-> "none"]

\* what a scorer call does: a reply, or an error
MediumCalls ==
    {[ok |-> TRUE, content |-> c, msg |-> {}] : c \in ScoreReplies}
        \cup {[ok |-> FALSE, content |-> <<>>, msg |-> m] : m \in ErrorTexts}

LargeCalls ==
    {[ok |-> TRUE, content |-> c] : c \in ScoreReplies} \cup {[ok |-> FALSE, content |-> <<>>]}

\* the candidate is given up only for a missing name
ContextBuildFailsForNoName(ds, context) == DatasetNameOf(ds) = ""

\* lines 329-335: the candidate has no dataset_name, or its context cannot be built
ContextBuildFails(ds, context) == DatasetNameOf(ds) = "" \/ context.status = "raised"

\* lines 328-373, one pass of the loop: the ValueError of lines 330 and 335, or the
\* candidate scored or passed over
ChooseCandidate ==
    /\ choose.status = "running"
    /\ choose.i <= Len(choose.candidate_results)
    /\ LET ds == choose.candidate_results[choose.i]
           context == GetQueryBuilderContext(CatalogPart(heap), full_datasets,
                                             DatasetNameOf(ds), TableNameOf(ds), TRUE)
       IN  IF ContextBuildFails(ds, context)
           THEN choose' = [choose EXCEPT !.status = "raised"]
           ELSE \E medium \in MediumCalls, large \in LargeCalls :
                  /\ (medium.ok \/ ~IsCapacityError(medium.msg)) => large = [ok |-> FALSE, content |-> <<>>]
                  /\ LET r == ScoreReply(medium, large)
                     IN  choose' = [choose EXCEPT !.i = @ + 1,
                                      !.scored = IF r.content.none THEN @
                                                 ELSE Append(@, ScoredEntry(ds, r.content.v)),
                                      !.medium = r.medium, !.large = r.large,
                                      !.content = r.content]
    /\ UNCHANGED <<heap, heap0, full_datasets, last, score, search, ask, lookup, server>>

\* after the loop: sort, top, ties
ChooseReturn ==
    /\ choose.status = "running"
    /\ choose.i > Len(choose.candidate_results)
    /\ LET r == Selection(choose.scored, choose.tie_threshold)
       IN  choose' = [choose EXCEPT !.status = "done"]
                        @@ [top |-> r.top, ties |-> r.ties, all_scored |-> r.all_scored]
    /\ UNCHANGED <<heap, heap0, full_datasets, last, score, search, ask, lookup, server>>

ChooseNext ==
    \/ ChooseCandidate
    \/ ChooseReturn

SpecChoose == ChooseInit /\ [][ChooseNext]_vars

\* the number of entries of the list equal to e
CountOf(list, e) == Cardinality({k \in 1..Len(list) : list[k] = e})

\* C6: all_scored is the scored entries in non-increasing order of score, top is its
\* first entry and has the greatest score, and ties are exactly the entries after top
\* whose score is within tie_threshold of top's, so top itself is not among them
C6_TopAndTies ==
    (choose.status = "done" /\ choose.scored # <<>>) =>
        LET all == choose.all_scored
            top == choose.top[1]
        IN  /\ Len(all) = Len(choose.scored)
            /\ \A k \in 1..Len(all) : CountOf(all, all[k]) = CountOf(choose.scored, all[k])
            /\ \A k \in 1..(Len(all) - 1) : all[k].score >= all[k + 1].score
            /\ top = all[1]
            /\ \A k \in 1..Len(all) : top.score >= all[k].score
            /\ choose.ties =
                  SelectSeq(SubSeq(all, 2, Len(all)),
                            LAMBDA e : top.score - e.score <= choose.tie_threshold)
            /\ Len(choose.ties) < Len(all)

\* scores 90, 88, 75, 40 with threshold 3: top 90, ties the 88 only
C6_Witness ==
    /\ choose.status = "done"
    /\ choose.tie_threshold = 3
    /\ Len(choose.scored) = 4
    /\ [k \in 1..4 |-> choose.scored[k].score] = <<90, 88, 75, 40>>
    /\ choose.top[1].score = 90
    /\ Len(choose.ties) = 1
    /\ choose.ties[1].score = 88

-----------------------------------------------------------------------------
(* BeaMcp.ask (mcp.py) *)

\* select_dataset: ':' in answer and answer.split(':')[0].strip() or answer
SelectDataset(content) ==
    LET answer == Strip(content)
        before == Strip(Split(answer, ":", <<>>)[1])
    IN  IF (\E k \in 1..Len(answer) : answer[k] = ":") /\ before # <<>>
        THEN before ELSE answer

\* a dict with no key
EmptyDict == [k \in {} |-> <<>>]

\* d.setdefault(name, val)
SetDefault(d, name, val) == IF Has(d, name) THEN d ELSE SetField(d, name, val)

\* d.pop(name, None)
Pop(d, name) == [f \in DOMAIN d \ {name} |-> d[f]]

\* context.get('DatasetName') or context.get('dataset_name'), "" for none
ContextDatasetName(context) ==
    IF Has(context, "DatasetName") /\ context.DatasetName # "" THEN context.DatasetName
    ELSE IF Has(context, "dataset_name") THEN context.dataset_name
    ELSE ""

\* 'Year' in params and ('FirstYear' in params or 'LastYear' in params): drop Year
NormalizeYear(params) ==
    IF Has(params, "Year") /\ (Has(params, "FirstYear") \/ Has(params, "LastYear"))
    THEN Pop(params, "Year") ELSE params

\* build_bea_params_with_llm after the reply: reply.json tells what json.loads made of
\* the braces-delimited snippet ("object", "array", "invalid"), reply.value the object
BuildBeaParams(context, reply) ==
    LET params == IF reply.json = "object" THEN reply.value ELSE EmptyDict
        dataset_name == ContextDatasetName(context)
        named == IF dataset_name # "" THEN SetDefault(params, "DatasetName", dataset_name)
                 ELSE params
        tabled == IF Has(context, "SelectedTableName") /\ ~Has(named, "TableName")
                  THEN SetField(named, "TableName", context.SelectedTableName)
                  ELSE named
    IN  NormalizeYear(tabled)

\* correct_bea_params_with_llm after the reply
CorrectBeaParams(context, current_params, reply) ==
    LET revised == IF reply.json = "object" THEN reply.value ELSE current_params
        ds_name == ContextDatasetName(context)
        named == IF ds_name # "" THEN SetDefault(revised, "DatasetName", ds_name)
                 ELSE revised
    IN  NormalizeYear(named)

\* {k: v for k, v in ds.items() if k not in ('_id', 'embedding', ...)}
Clean(ds) ==
    [f \in DOMAIN ds \ {"_id", "embedding", "table_desc_embedding", "other_parameters"}
        |-> ds[f]]

\* data[:3]
DataPreview(data) == Prefix(data, 3)

\* _generate_answer: the reply, or the text that tells of the failure; it never raises
GenerateAnswer(llm_ok) == IF llm_ok THEN "answer" ELSE "Answer generation failed"

\* the second fetch is given bea_params again
SecondFetchParamsFirst(a) == a.bea_params

\* fetch_data_from_bea_api(corrected)
SecondFetchParams(a) == a.payload.corrected_params

\* what the large model answers to select_dataset; ok FALSE: the call raises
SelectRuns ==
    { [ok |-> TRUE, content |-> <<"N", "I", "P", "A">>],
      [ok |-> TRUE, content |-> <<" ", "N", "I", "P", "A", " ", ":", " ", "x">>],
      [ok |-> TRUE, content |-> <<":", "x">>],
      [ok |-> FALSE, content |-> <<>>] }

\* what the searches of one question give
AskSearchRuns ==
    { [fail |-> "none", full |-> <<Doc(1), Doc(2)>>, short |-> <<Doc(2)>>, listing |-> <<>>],
      [fail |-> "none", full |-> <<>>, short |-> <<>>, listing |-> <<Doc(1)>>],
      [fail |-> "none", full |-> <<>>, short |-> <<>>, listing |-> <<>>],
      [fail |-> "search_full", full |-> <<>>, short |-> <<>>, listing |-> <<>>],
      [fail |-> "extract_data_item", full |-> <<>>, short |-> <<>>, listing |-> <<>>] }

\* what the stage-1 scorer does
AskScorerRuns ==
    { [ok |-> TRUE, content |-> <<"2", ",", "1">>],
      [ok |-> TRUE, content |-> <<"x">>],
      [ok |-> FALSE, content |-> <<>>] }

\* what the large model does when asked for params: ok FALSE, the call raises
GenRuns ==
    { [ok |-> FALSE, json |-> "invalid", value |-> EmptyDict],
      [ok |-> TRUE, json |-> "invalid", value |-> EmptyDict],
      [ok |-> TRUE, json |-> "array", value |-> EmptyDict],
      [ok |-> TRUE, json |-> "object", value |-> EmptyDict],
      [ok |-> TRUE, json |-> "object",
       value |-> [DatasetName |-> "Ghost", Year |-> Y2015]],
      [ok |-> TRUE, json |-> "object",
       value |-> [TableName |-> T2, Year |-> Y2015, FirstYear |-> Y2015]] }

\* what the statistics API does: rows, or the text of the ValueError
FetchRuns ==
    { [ok |-> TRUE, data |-> <<>>, error |-> ""],
      [ok |-> TRUE, data |-> <<"r1", "r2", "r3", "r4">>, error |-> ""],
      [ok |-> FALSE, data |-> <<>>, error |-> "Error fetching data"],
      [ok |-> FALSE, data |-> <<>>, error |-> "BEA API returned an error"] }

Question == "q"

AskInit ==
    /\ ask = [pc |-> "select_dataset", calls |-> <<>>, fetched |-> <<>>]
    /\ heap = RankingCatalog
    /\ heap0 = RankingCatalog
    /\ full_datasets = <<DatasetAddr(1), DatasetAddr(2)>>
    /\ last = Idle
    /\ score = Idle
    /\ search = Idle
    /\ choose = Idle
    /\ lookup = Idle
    /\ server = Idle

\* the step of ask taken: its name joins the call history
Step(name, pc) == [ask EXCEPT !.pc = pc, !.calls = Append(@, name)]

\* line 245; exit(1) when the model call raises
AskSelectDataset ==
    /\ ask.pc = "select_dataset"
    /\ \E run \in SelectRuns :
          ask' = IF run.ok
                 THEN Step("select_dataset", "smart_search")
                        @@ [best_dataset |-> SelectDataset(run.content)]
                 ELSE Step("select_dataset", "exited")
    /\ UNCHANGED <<heap, heap0, full_datasets, last, score, search, choose, lookup, server>>

\* line 248
AskSmartSearch ==
    /\ ask.pc = "smart_search"
    /\ \E env \in AskSearchRuns :
          LET r == SmartSearch(env)
          IN  ask' = IF r.status = "ok"
                     THEN Step("smart_search", "score") @@ [results |-> r.results]
                     ELSE IF r.status = "exit" THEN Step("smart_search", "exited")
                     ELSE Step("smart_search", "raised")
    /\ UNCHANGED <<heap, heap0, full_datasets, last, score, search, choose, lookup, server>>

\* the payload that tells 'error' where no candidate was left
NoDatasetsAsError(question) == [question |-> question, fetch_status |-> "error"]

\* line 251: the payload returned when stage 1 leaves no candidate
NoDatasets(question) == [question |-> question, fetch_status |-> "no_datasets"]

\* lines 249-251
AskScore ==
    /\ ask.pc = "score"
    /\ \E llm \in AskScorerRuns :
          LET r == ScoreAndSelectTop(ask.results, 10, llm)
          IN  ask' = IF r.top = <<>>
                     THEN Step("score_and_select_top", "returned")
                            @@ [payload |-> NoDatasets(Question)]
                     ELSE Step("score_and_select_top", "choose") @@ [top10 |-> r.top]
    /\ UNCHANGED <<heap, heap0, full_datasets, last, score, search, choose, lookup, server>>

\* line 259: the call is entered; ChooseCandidate and ChooseReturn run it
AskChoose ==
    /\ ask.pc = "choose"
    /\ ask' = Step("choose_datasets_to_query", "choosing")
    /\ choose' = [status |-> "running", candidate_results |-> ask.top10,
                  tie_threshold |-> 3, i |-> 1, scored |-> <<>>,
                  medium |-> "none", large |-> "none", content |-> NoneT]
    /\ UNCHANGED <<heap, heap0, full_datasets, last, score, search, lookup, server>>

\* the call is over and the lowest-ranked entry is taken instead of the top
AskChosenLast ==
    /\ ask.pc = "choosing"
    /\ choose.status \in {"done", "raised"}
    /\ ask' = IF choose.status = "raised" \/ choose.top = <<>>
              THEN [ask EXCEPT !.pc = "raised"]
              ELSE [ask EXCEPT !.pc = "context"]
                      @@ [chosen |-> choose.all_scored[Len(choose.all_scored)]]
    /\ choose' = Idle
    /\ UNCHANGED <<heap, heap0, full_datasets, last, score, search, lookup, server>>

\* lines 259-268: the call is over; chosen.items() raises when top is None
AskChosen ==
    /\ ask.pc = "choosing"
    /\ choose.status \in {"done", "raised"}
    /\ ask' = IF choose.status = "raised" \/ choose.top = <<>>
              THEN [ask EXCEPT !.pc = "raised"]
              ELSE [ask EXCEPT !.pc = "context"] @@ [chosen |-> choose.top[1]]
    /\ choose' = Idle
    /\ UNCHANGED <<heap, heap0, full_datasets, last, score, search, lookup, server>>

\* lines 270-275
AskContext ==
    /\ ask.pc = "context"
    /\ LET r == GetQueryBuilderContext(heap, full_datasets, ask.chosen.dataset_name,
                                       ask.chosen.table_name, FALSE)
       IN  /\ ask' = IF r.status = "ok"
                     THEN Step("get_query_builder_context", "build") @@ [context |-> r.addr]
                     ELSE Step("get_query_builder_context", "raised")
           /\ heap' = r.heap
    /\ UNCHANGED <<heap0, full_datasets, last, score, search, choose, lookup, server>>

\* lines 277-287; the URL cannot be built without BEA_API_KEY
AskBuildParams ==
    /\ ask.pc = "build"
    /\ \E gen \in GenRuns, api_key \in BOOLEAN :
          LET bea_params == BuildBeaParams(heap[ask.context], gen)
          IN  ask' = IF gen.ok /\ api_key
                     THEN Step("build_bea_params_with_llm", "fetch")
                            @@ [bea_params |-> bea_params,
                                payload |-> [question |-> Question,
                                             top10 |-> [k \in 1..Len(ask.top10) |->
                                                          Clean(ask.top10[k])],
                                             chosen |-> Clean(ask.chosen),
                                             context |-> ask.context,
                                             bea_params |-> bea_params]]
                     ELSE Step("build_bea_params_with_llm", "raised")
    /\ UNCHANGED <<heap, heap0, full_datasets, last, score, search, choose, lookup, server>>

\* lines 312-319
AskFetch ==
    /\ ask.pc = "fetch"
    /\ \E run \in FetchRuns, llm_ok \in BOOLEAN :
          ask' = [Step("fetch_data_from_bea_api", IF run.ok THEN "returned" ELSE "correct")
                    EXCEPT !.fetched = Append(@, [params |-> ask.bea_params, ok |-> run.ok]),
                           !.payload =
                              IF run.ok
                              THEN [fetch_status |-> "ok",
                                    data_preview |-> DataPreview(run.data),
                                    answer |-> GenerateAnswer(llm_ok)] @@ @
                              ELSE [fetch_status |-> "error", error |-> run.error] @@ @]
    /\ UNCHANGED <<heap, heap0, full_datasets, last, score, search, choose, lookup, server>>

\* lines 320-321
AskCorrect ==
    /\ ask.pc = "correct"
    /\ \E gen \in GenRuns :
          ask' = IF gen.ok
                 THEN [Step("correct_bea_params_with_llm", "refetch")
                         EXCEPT !.payload =
                            [corrected_params |->
                                CorrectBeaParams(heap[ask.context], ask.bea_params, gen)]
                            @@ @]
                 ELSE Step("correct_bea_params_with_llm", "raised")
    /\ UNCHANGED <<heap, heap0, full_datasets, last, score, search, choose, lookup, server>>

\* lines 322-331
AskRefetch ==
    /\ ask.pc = "refetch"
    /\ \E run \in FetchRuns, llm_ok \in BOOLEAN :
          ask' = [Step("fetch_data_from_bea_api", "returned")
                    EXCEPT !.fetched = Append(@, [params |-> SecondFetchParams(ask),
                                                  ok |-> run.ok]),
                           !.payload =
                              IF run.ok
                              THEN [second_attempt_status |-> "ok",
                                    data_preview |-> DataPreview(run.data),
                                    answer |-> GenerateAnswer(llm_ok)] @@ @
                              ELSE [second_attempt_status |-> "error",
                                    second_error |-> run.error] @@ @]
    /\ UNCHANGED <<heap, heap0, full_datasets, last, score, search, choose, lookup, server>>

AskNext ==
    \/ AskSelectDataset
    \/ AskSmartSearch
    \/ AskScore
    \/ AskChoose
    \/ ChooseCandidate
    \/ ChooseReturn
    \/ AskChosen
    \/ AskContext
    \/ AskBuildParams
    \/ AskFetch
    \/ AskCorrect
    \/ AskRefetch

SpecAsk == AskInit /\ [][AskNext]_vars

\* how often ask has called name so far
Calls(name) == Cardinality({k \in 1..Len(ask.calls) : ask.calls[k] = name})

\* the position in the call history of the n-th call of name
CallAt(name, n) ==
    CHOOSE k \in 1..Len(ask.calls) :
        /\ ask.calls[k] = name
        /\ Cardinality({j \in 1..k : ask.calls[j] = name}) = n

\* C5: at most two fetches and one correction; the correction comes after a first fetch
\* that failed; the second fetch comes after the correction and is given the corrected
\* params; a second fetch that failed ends the run with second_attempt_status 'error'
\* and second_error in the payload
C5_FetchTwiceCorrectOnce ==
    /\ Calls("fetch_data_from_bea_api") <= 2
    /\ Calls("correct_bea_params_with_llm") <= 1
    /\ Len(ask.fetched) = Calls("fetch_data_from_bea_api")
    /\ Calls("correct_bea_params_with_llm") = 1 =>
          /\ Len(ask.fetched) >= 1
          /\ ~ask.fetched[1].ok
          /\ CallAt("fetch_data_from_bea_api", 1) < CallAt("correct_bea_params_with_llm", 1)
          /\ ask.payload.fetch_status = "error"
    /\ Len(ask.fetched) = 2 =>
          /\ Calls("correct_bea_params_with_llm") = 1
          /\ CallAt("correct_bea_params_with_llm", 1) < CallAt("fetch_data_from_bea_api", 2)
          /\ ask.fetched[2].params = ask.payload.corrected_params
          /\ ask.pc = "returned"
          /\ ~ask.fetched[2].ok =>
                /\ ask.payload.second_attempt_status = "error"
                /\ Has(ask.payload, "second_error")

\* both fetches failed, the second with params the correction changed
C5_Witness ==
    /\ ask.pc = "returned"
    /\ Len(ask.fetched) = 2
    /\ ~ask.fetched[2].ok
    /\ ask.fetched[2].params # ask.fetched[1].params
    /\ ask.payload.second_attempt_status = "error"

-----------------------------------------------------------------------------
(* The params build_bea_params_with_llm and correct_bea_params_with_llm return *)

\* flag.strip().lower() on the flags of the catalog
FlagLower(flag) ==
    CASE flag = "1" -> "1" [] flag = "0" -> "0" [] flag = "True" -> "true"
      [] OTHER -> flag

\* list_required_parameters(context): the names whose ParameterIsRequiredFlag reads
\* 'true' or '1', in the order of context['Parameters']
ListRequiredParameters(h, context) ==
    LET params == IF Has(h[context], "Parameters") THEN h[h[context].Parameters].items
                  ELSE <<>>
        required == SelectSeq(params, LAMBDA q :
                        /\ Has(h[q], "ParameterName")
                        /\ Has(h[q], "ParameterIsRequiredFlag")
                        /\ FlagLower(h[q].ParameterIsRequiredFlag) \in {"true", "1"})
    IN  [k \in 1..Len(required) |-> h[required[k]].ParameterName]

\* C11: the params built and the params corrected name the dataset of the context
C11_DatasetNameFromContext ==
    /\ Has(ask, "bea_params") =>
          /\ Has(ask.bea_params, "DatasetName")
          /\ ask.bea_params.DatasetName = heap[ask.context].DatasetName
    /\ (Has(ask, "payload") /\ Has(ask.payload, "corrected_params")) =>
          /\ Has(ask.payload.corrected_params, "DatasetName")
          /\ ask.payload.corrected_params.DatasetName = heap[ask.context].DatasetName

\* C12: every name of current_params that the context marks required is a name of the
\* corrected params
C12_RequiredParamsKept ==
    (Has(ask, "payload") /\ Has(ask.payload, "corrected_params")) =>
        LET required == ListRequiredParameters(heap, ask.context)
        IN  \A k \in 1..Len(required) :
                Has(ask.bea_params, required[k])
                    => Has(ask.payload.corrected_params, required[k])

-----------------------------------------------------------------------------
(* Table names (lookup.py): the regular expressions, as what they match *)

\* the character at position i, "" past the ends
At(s, i) == IF i \in 1..Len(s) THEN s[i] ELSE ""

\* s[i-1:j] of Python for the 1-based positions i..j, cut to the string
Slice(s, i, j) ==
    LET lo == IF i < 1 THEN 1 ELSE i
        hi == IF j > Len(s) THEN Len(s) ELSE j
    IN  IF lo > hi THEN <<>> ELSE SubSeq(s, lo, hi)

\* s[i:], 1-based
From(s, i) == Slice(s, i, Len(s))

RECURSIVE DigitRun(_, _)
\* \d+ at position i: the length of the run of digits there
DigitRun(s, i) == IF At(s, i) \in Digits THEN 1 + DigitRun(s, i + 1) ELSE 0

RECURSIVE SpaceRun(_, _)
\* \s* at position i: the length of the run of whitespace there
SpaceRun(s, i) == IF At(s, i) # "" /\ IsSpace(At(s, i)) THEN 1 + SpaceRun(s, i + 1) ELSE 0

\* sub in s
Contains(sub, s) == \E i \in 1..(Len(s) + 1) : Slice(s, i, i + Len(sub) - 1) = sub

\* [A-Z]
UpperLetters ==
    {"A", "B", "C", "D", "E", "F", "G", "H", "I", "J", "K", "L", "M",
     "N", "O", "P", "Q", "R", "S", "T", "U", "V", "W", "X", "Y", "Z"}

\* (\d)\.(\d)\.(\d) matched at position i: one digit for each number
ThreePartSingleDigitAt(s, i) ==
    [ok |-> /\ At(s, i) \in Digits /\ At(s, i + 1) = "." /\ At(s, i + 2) \in Digits
            /\ At(s, i + 3) = "." /\ At(s, i + 4) \in Digits,
     g1 |-> Slice(s, i, i), g2 |-> Slice(s, i + 2, i + 2), g3 |-> Slice(s, i + 4, i + 4),
     end |-> i + 5]

\* (\d+)\.(\d+)\.(\d+) matched at position i: the three runs of digits and the position
\* after the match
ThreePartAt(s, i) ==
    LET n1 == DigitRun(s, i)
        i2 == i + n1 + 1
        n2 == DigitRun(s, i2)
        i3 == i2 + n2 + 1
        n3 == DigitRun(s, i3)
    IN  [ok |-> n1 > 0 /\ At(s, i + n1) = "." /\ n2 > 0 /\ At(s, i2 + n2) = "." /\ n3 > 0,
         g1 |-> Slice(s, i, i + n1 - 1), g2 |-> Slice(s, i2, i2 + n2 - 1),
         g3 |-> Slice(s, i3, i3 + n3 - 1), end |-> i3 + n3]

RECURSIVE FirstThreePart(_, _)
\* the first position from i on at which the three-part number matches, 0 for none
FirstThreePart(s, i) ==
    IF i > Len(s) THEN 0
    ELSE IF s[i] \in Digits /\ ThreePartAt(s, i).ok THEN i
    ELSE FirstThreePart(s, i + 1)

\* re.search(r'(\d+)\.(\d+)\.(\d+)', s): the leftmost match
SearchThreePart(s) ==
    LET at == FirstThreePart(s, 1)
    IN  IF at = 0 THEN [ok |-> FALSE] ELSE ThreePartAt(s, at)

\* \.\s+(.+) matched at position i: the group, none when there is no match; \s+ gives
\* back its last character when nothing else is left for the group
DotSpaceRest(s, i) ==
    LET w == SpaceRun(s, i + 1)
        rest == From(s, i + 1 + w)
    IN  IF At(s, i) # "." \/ w = 0 THEN NoneT
        ELSE IF rest # <<>> THEN Some(rest)
        ELSE IF w >= 2 THEN Some(<<At(s, i + w)>>)
        ELSE NoneT

\* Table\s+ matched at position i: the position after it, 0 when there is no match
TableWordAt(s, i) ==
    IF Slice(s, i, i + 4) = <<"T", "a", "b", "l", "e">> /\ SpaceRun(s, i + 5) > 0
    THEN i + 5 + SpaceRun(s, i + 5) ELSE 0

\* Table\s+\d+\.\d+\.\d+\.\s+(.+) matched at position i: group 1 or none
TableThreePartAt(s, i) ==
    LET n == TableWordAt(s, i)
        m == ThreePartAt(s, n)
    IN  IF n = 0 \/ ~m.ok THEN NoneT ELSE DotSpaceRest(s, m.end)

\* Table\s+(\d+)\.(\d+)([A-Z])?\.\s+(.+) matched at position i
TableTwoPartAt(s, i) ==
    LET n == TableWordAt(s, i)
        n1 == DigitRun(s, n)
        i2 == n + n1 + 1
        n2 == DigitRun(s, i2)
        letter == IF At(s, i2 + n2) \in UpperLetters THEN Some(<<At(s, i2 + n2)>>) ELSE NoneT
        dot == i2 + n2 + (IF letter.none THEN 0 ELSE 1)
        rest == DotSpaceRest(s, dot)
    IN  [ok |-> n > 0 /\ n1 > 0 /\ At(s, n + n1) = "." /\ n2 > 0 /\ ~rest.none,
         g1 |-> Slice(s, n, n + n1 - 1), g2 |-> Slice(s, i2, i2 + n2 - 1),
         g3 |-> letter, g4 |-> rest.v]

RECURSIVE MarkerSub(_)
\* re.sub(r'\s*\([AMQ]\)\s*', ' ', s)
MarkerSub(s) ==
    IF s = <<>> THEN <<>>
    ELSE LET k == SpaceRun(s, 1)
             marker == At(s, k + 1) = "(" /\ At(s, k + 2) \in {"A", "M", "Q"}
                          /\ At(s, k + 3) = ")"
         IN  IF marker
             THEN <<" ">> \o MarkerSub(From(s, k + 4 + SpaceRun(s, k + 4)))
             ELSE <<Head(s)>> \o MarkerSub(Tail(s))

RECURSIVE FirstTableThreePart(_, _)
\* the first position from i on at which 'Table X.Y.Z. text' matches, 0 for none
FirstTableThreePart(s, i) ==
    IF i > Len(s) THEN 0
    ELSE IF s[i] = "T" /\ ~TableThreePartAt(s, i).none THEN i
    ELSE FirstTableThreePart(s, i + 1)

\* extract_table_content(table_name): none for None
ExtractTableContent(table_name) ==
    LET first == FirstTableThreePart(table_name, 1)
    IN  IF first = 0 THEN NoneT
        ELSE Some(Strip(MarkerSub(TableThreePartAt(table_name, first).v)))

\* the longest common substring found by comparing with the second string only
LongestCommonWithSecond(strings) ==
    LET reference == strings[1]
        common == {ij \in (1..Len(reference)) \X (1..Len(reference)) :
                     /\ ij[1] <= ij[2]
                     /\ Contains(SubSeq(reference, ij[1], ij[2]), strings[2])}
        best == CHOOSE ij \in common :
                  \A o \in common :
                     \/ ij[2] - ij[1] > o[2] - o[1]
                     \/ (ij[2] - ij[1] = o[2] - o[1] /\ ij[1] <= o[1])
    IN  IF strings = <<>> THEN <<>>
        ELSE IF Len(strings) = 1 THEN Strip(strings[1])
        ELSE IF common = {} THEN <<>>
        ELSE Strip(SubSeq(reference, best[1], best[2]))

\* the longest common substring that starts rightmost: a substring as long as the one
\* kept replaces it
LongestCommonRightmost(strings) ==
    LET reference == strings[1]
        common == {ij \in (1..Len(reference)) \X (1..Len(reference)) :
                     /\ ij[1] <= ij[2]
                     /\ \A k \in 2..Len(strings) :
                           Contains(SubSeq(reference, ij[1], ij[2]), strings[k])}
        best == CHOOSE ij \in common :
                  \A o \in common :
                     \/ ij[2] - ij[1] > o[2] - o[1]
                     \/ (ij[2] - ij[1] = o[2] - o[1] /\ ij[1] >= o[1])
    IN  IF strings = <<>> THEN <<>>
        ELSE IF Len(strings) = 1 THEN Strip(strings[1])
        ELSE IF common = {} THEN <<>>
        ELSE Strip(SubSeq(reference, best[1], best[2]))

\* longest_common_substring(strings): the loops over i and j keep the first substring
\* of the reference that is in every other string and longer than any found before,
\* which is the longest one that starts leftmost
LongestCommonSubstring(strings) ==
    LET reference == strings[1]
        common == {ij \in (1..Len(reference)) \X (1..Len(reference)) :
                     /\ ij[1] <= ij[2]
                     /\ \A k \in 2..Len(strings) :
                           Contains(SubSeq(reference, ij[1], ij[2]), strings[k])}
        best == CHOOSE ij \in common :
                  \A o \in common :
                     \/ ij[2] - ij[1] > o[2] - o[1]
                     \/ (ij[2] - ij[1] = o[2] - o[1] /\ ij[1] <= o[1])
    IN  IF strings = <<>> THEN <<>>
        ELSE IF Len(strings) = 1 THEN Strip(strings[1])
        ELSE IF common = {} THEN <<>>
        ELSE Strip(SubSeq(reference, best[1], best[2]))

\* NIPA_SECTIONS
NIPA_SECTIONS ==
    << "Domestic Product and Income", "Personal Income and Outlays",
       "Government Current Receipts and Expenditures", "Foreign Transactions",
       "Saving and Investment", "Income and Employment by Industry",
       "Supplemental Tables", "Not Seasonally Adjusted" >>

\* NIPA_SECTIONS.get(section_num, f"Section {section_num}")
SectionName(section_num) ==
    IF section_num \in 1..Len(NIPA_SECTIONS)
    THEN [listed |-> TRUE, name |-> NIPA_SECTIONS[section_num]]
    ELSE [listed |-> FALSE, name |-> "Section", number |-> section_num]

\* the contents of the subsection's tables that are neither None nor empty
Contents(subsection_tables) ==
    LET contents == [k \in 1..Len(subsection_tables) |->
                        ExtractTableContent(subsection_tables[k])]
        kept == SelectSeq(contents, LAMBDA c : ~c.none /\ c.v # <<>>)
    IN  [k \in 1..Len(kept) |-> kept[k].v]

RECURSIVE FirstTableTwoPart(_, _)
\* the first position from i on at which the two-part pattern matches, 0 for none
FirstTableTwoPart(s, i) ==
    IF i > Len(s) THEN 0
    ELSE IF s[i] = "T" /\ TableTwoPartAt(s, i).ok THEN i
    ELSE FirstTableTwoPart(s, i + 1)

\* the first "Table" at which the two-part pattern matches, 0 for no match
SearchTwoPart(table_name) == FirstTableTwoPart(table_name, 1)

\* parse_nipa_table_desc(table_name, subsection_tables): none TRUE for None
ParseNipaTableDesc(table_name, subsection_tables) ==
    LET number_match == SearchThreePart(table_name)
        contents == Contents(subsection_tables)
        at == SearchTwoPart(table_name)
        two_part_match == TableTwoPartAt(table_name, at)
        flags == [is_annual |-> Contains(<<"(", "A", ")">>, table_name),
                  is_quarterly |-> Contains(<<"(", "Q", ")">>, table_name),
                  is_monthly |-> Contains(<<"(", "M", ")">>, table_name)]
    IN  IF number_match.ok
        THEN flags @@
             [none |-> FALSE,
              subsection |-> IF contents # <<>> THEN LongestCommonSubstring(contents)
                             ELSE <<>>,
              section_number |-> DigitsValue(number_match.g1),
              subsection_number |-> DigitsValue(number_match.g2),
              sub_subsection_letter |-> NoneT,
              table_number |-> [none |-> FALSE, v |-> DigitsValue(number_match.g3)],
              section |-> SectionName(DigitsValue(number_match.g1))]
        ELSE IF at = 0 THEN [none |-> TRUE]
        ELSE flags @@
             [none |-> FALSE,
              subsection |-> Strip(MarkerSub(two_part_match.g4)),
              section_number |-> DigitsValue(two_part_match.g1),
              subsection_number |-> DigitsValue(two_part_match.g2),
              sub_subsection_letter |-> two_part_match.g3,
              table_number |-> [none |-> TRUE, v |-> 0],
              section |-> SectionName(DigitsValue(two_part_match.g1))]

\* get_nipa_table_subsection_id(table_name): the text "X.Y", none TRUE for None
GetNipaTableSubsectionId(table_name) ==
    LET match == SearchThreePart(table_name)
    IN  IF match.ok THEN Some(match.g1 \o <<".">> \o match.g2) ELSE NoneT

-----------------------------------------------------------------------------
(* build_lookup_documents (lookup.py) *)

\* d.get(name, default)
GetOr(d, name, default) == IF Has(d, name) THEN d[name] ELSE default

\* lines 190-206: the TableName parameter, else the TableID parameter; found FALSE for
\* None
TableParameter(parameters) ==
    LET named(n) == SelectSeq(parameters, LAMBDA q : LowerName(q.ParameterName) = n)
        tablename == named("tablename")
        tableid == named("tableid")
    IN  IF tablename # <<>> THEN [found |-> TRUE, param |-> tablename[Len(tablename)]]
        ELSE IF tableid # <<>> THEN [found |-> TRUE, param |-> tableid[Len(tableid)]]
        ELSE [found |-> FALSE]

\* lines 238-243: the parameters that are not the table parameter, name and description
OtherParameters(parameters) ==
    LET other == SelectSeq(parameters, LAMBDA q :
                    LowerName(q.ParameterName) \notin {"tablename", "tableid"})
    IN  [k \in 1..Len(other) |->
            [parameter_name |-> other[k].ParameterName,
             parameter_description |-> GetOr(other[k], "ParameterDescription", "")]]

\* table_value.get('Description', table_value.get('Desc', ''))
DescriptionOf(table_value) == GetOr(table_value, "Description", GetOr(table_value, "Desc", <<>>))

\* subsection_tables_map.get(key, []): the descriptions with that subsection id, in order
SubsectionTables(table_descs, key) ==
    SelectSeq(table_descs, LAMBDA d : GetNipaTableSubsectionId(d) = key)

\* lines 209-245 and 247-263: the documents of one dataset
DatasetDocuments(dataset) ==
    LET dataset_name == GetOr(dataset, "DatasetName", "")
        parameters == GetOr(dataset, "Parameters", <<>>)
        table_parameter == TableParameter(parameters)
        table_values == GetOr(table_parameter.param, "Values", <<>>)
        table_descs == [k \in 1..Len(table_values) |-> DescriptionOf(table_values[k])]
        base == [dataset_name |-> dataset_name,
                 dataset_description |-> GetOr(dataset, "DatasetDescription", ""),
                 other_parameters |-> OtherParameters(parameters)]
        document(table_value) ==
            LET table_description == DescriptionOf(table_value)
                tabled == base @@
                    [table_name |-> GetOr(table_value, "TableName",
                                          GetOr(table_value, "Key", <<>>)),
                     table_description |-> table_description]
                key == GetNipaTableSubsectionId(table_description)
            IN  IF dataset_name = "NIPA"
                THEN tabled @@ [meta |-> ParseNipaTableDesc(table_description,
                                            SubsectionTables(table_descs, key))]
                ELSE tabled
    IN  IF table_parameter.found
        THEN [k \in 1..Len(table_values) |-> document(table_values[k])]
        ELSE <<base>>

RECURSIVE BuildLookupDocuments(_)
\* build_lookup_documents(datasets)
BuildLookupDocuments(datasets) ==
    IF datasets = <<>> THEN <<>>
    ELSE DatasetDocuments(Head(datasets)) \o BuildLookupDocuments(Tail(datasets))

\* descriptions of NIPA tables
TableDescs ==
    {
      \* Table 1.2.1. ab (A)
      <<"T", "a", "b", "l", "e", " ", "1", ".", "2", ".", "1", ".", " ", "a", "b", " ",
        "(", "A", ")">>,
      \* Table 1.2.2. b c (A) (Q)
      <<"T", "a", "b", "l", "e", " ", "1", ".", "2", ".", "2", ".", " ", "b", " ", "c",
        " ", "(", "A", ")", " ", "(", "Q", ")">>,
      \* Table 1.2.3. Foo Bar (A) (Q)
      <<"T", "a", "b", "l", "e", " ", "1", ".", "2", ".", "3", ".", " ", "F", "o", "o",
        " ", "B", "a", "r", " ", "(", "A", ")", " ", "(", "Q", ")">>,
      \* Table 1.2.4. (M)
      <<"T", "a", "b", "l", "e", " ", "1", ".", "2", ".", "4", ".", " ", "(", "M", ")">>,
      \* 1.2.5 c
      <<"1", ".", "2", ".", "5", " ", "c">>,
      \* Table 1.3.1. ab (Q) c
      <<"T", "a", "b", "l", "e", " ", "1", ".", "3", ".", "1", ".", " ", "a", "b", " ",
        "(", "Q", ")", " ", "c">>,
      \* Table 1.12. ab (A)
      <<"T", "a", "b", "l", "e", " ", "1", ".", "1", "2", ".", " ", "a", "b", " ", "(",
        "A", ")">>,
      \* Table 6.21D. cb (A)
      <<"T", "a", "b", "l", "e", " ", "6", ".", "2", "1", "D", ".", " ", "c", "b", " ",
        "(", "A", ")">>,
      \* Gross
      <<"G", "r", "o", "s", "s">>,
      \* Table 10.2.1. b (M)
      <<"T", "a", "b", "l", "e", " ", "1", "0", ".", "2", ".", "1", ".", " ", "b", " ",
        "(", "M", ")">>
    }

\* the NIPA dataset whose tables have the descriptions descs
NipaTables(descs) ==
    [DatasetName |-> "NIPA", DatasetDescription |-> "national accounts",
     Parameters |-> <<
        [ParameterName |-> "Frequency", ParameterDescription |-> "A, Q or M",
         Values |-> << [Key |-> <<"A">>, Desc |-> <<"a">>] >>],
        [ParameterName |-> "TableName",
         Values |-> [k \in 1..Len(descs) |->
                        [TableName |-> <<"T", DigitChar(k)>>, Description |-> descs[k]]]] >>]

\* a dataset with no table parameter
FixedAssets == [DatasetName |-> "FixedAssets", Parameters |-> << [ParameterName |-> "Year"] >>]

LookupDatasets ==
    {<<NipaTables(descs)>> : descs \in BoundedSeq(TableDescs, MaxTables)}
        \cup {<<RegionalDataset>>, <<FixedAssets>>, <<>>}

LookupInit ==
    /\ \E datasets \in LookupDatasets : lookup = [status |-> "called", datasets |-> datasets]
    /\ heap = <<>>
    /\ heap0 = <<>>
    /\ full_datasets = <<>>
    /\ last = Idle
    /\ score = Idle
    /\ search = Idle
    /\ choose = Idle
    /\ ask = Idle
    /\ server = Idle

BuildLookup ==
    /\ lookup.status = "called"
    /\ lookup' = [status |-> "done", datasets |-> lookup.datasets,
                  documents |-> BuildLookupDocuments(lookup.datasets)]
    /\ UNCHANGED <<heap, heap0, full_datasets, last, score, search, choose, ask, server>>

LookupNext == BuildLookup

SpecLookup == LookupInit /\ [][LookupNext]_vars

\* the NIPA documents built
NipaDocuments ==
    IF lookup.status = "done"
    THEN SelectSeq(lookup.documents, LAMBDA d : d.dataset_name = "NIPA" /\ Has(d, "meta"))
    ELSE <<>>

\* the subsection id X.Y of each document, by its description
ClusterKeys(docs) ==
    [k \in 1..Len(docs) |-> GetNipaTableSubsectionId(docs[k].table_description)]

\* the description without the table number and the frequency markers; the whole
\* description without the markers when it does not start as 'Table X.Y.Z. '
StrippedDescription(d) ==
    LET content == ExtractTableContent(d.table_description)
    IN  IF content.none THEN Strip(MarkerSub(d.table_description)) ELSE content.v

\* C13 as stated: the label of each member of a cluster is a substring of the
\* marker-stripped description of every member of the cluster
C13_LabelInEveryMember ==
    LET docs == NipaDocuments
        keys == ClusterKeys(docs)
        stripped == [k \in 1..Len(docs) |-> StrippedDescription(docs[k])]
    IN  \A j, k \in 1..Len(docs) :
            (~keys[j].none /\ keys[j] = keys[k]) =>
                Contains(docs[j].meta.subsection, stripped[k])

\* C13: the label of each member of a cluster is a substring of the marker-stripped
\* description of every member whose description reads 'Table X.Y.Z. text' with some
\* text left once the markers are removed
C13_LabelInEveryNamedMember ==
    LET docs == NipaDocuments
        keys == ClusterKeys(docs)
        contents == [k \in 1..Len(docs) |-> ExtractTableContent(docs[k].table_description)]
    IN  \A j, k \in 1..Len(docs) :
            (~keys[j].none /\ keys[j] = keys[k]
                /\ ~contents[k].none /\ contents[k].v # <<>>) =>
                Contains(docs[j].meta.subsection, contents[k].v)

\* a cluster of two tables with different texts and a label that is neither empty nor
\* the whole text
C13_Witness ==
    LET docs == NipaDocuments
        keys == ClusterKeys(docs)
        contents == [k \in 1..Len(docs) |-> ExtractTableContent(docs[k].table_description)]
    IN  \E j, k \in 1..Len(docs) :
            /\ ~keys[j].none /\ keys[j] = keys[k]
            /\ ~contents[j].none /\ ~contents[k].none
            /\ contents[j].v # contents[k].v
            /\ docs[j].meta.subsection # <<>>
            /\ docs[j].meta.subsection # contents[j].v

\* the numbers tried for X, Y and Z
SectionNumbers == 0..12
SubsectionNumbers == 0..3
TableNumbers == 0..5

\* 'Table X.Y.Z. ' for the numbers x, y, z
ThreePartPrefix(x, y, z) ==
    <<"T", "a", "b", "l", "e", " ">> \o IntToStr(x) \o <<".">>
        \o IntToStr(y) \o <<".">> \o IntToStr(z) \o <<".", " ">>

\* the prefixes 'Table X.Y.Z. ' with their numbers
ThreePartPrefixes ==
    {[x |-> x, y |-> y, z |-> z, prefix |-> ThreePartPrefix(x, y, z)] :
        x \in SectionNumbers, y \in SubsectionNumbers, z \in TableNumbers}

\* the marker "(c)" stands somewhere in the name
HasMarker(name, c) ==
    \E i \in 1..Len(name) : At(name, i) = "(" /\ At(name, i + 1) = c /\ At(name, i + 2) = ")"

\* C14: a name 'Table X.Y.Z. ...' parses to section X, subsection Y, table Z, no letter,
\* and each frequency flag tells whether its marker stands in the name
C14_ThreePartParsed ==
    LET docs == NipaDocuments
    IN  \A p \in ThreePartPrefixes, k \in 1..Len(docs) :
            LET name == docs[k].table_description
                meta == docs[k].meta
            IN  StartsWith(name, p.prefix) =>
                            /\ ~meta.none
                            /\ meta.section_number = p.x
                            /\ meta.subsection_number = p.y
                            /\ ~meta.table_number.none /\ meta.table_number.v = p.z
                            /\ meta.sub_subsection_letter.none
                            /\ meta.is_annual = HasMarker(name, "A")
                            /\ meta.is_quarterly = HasMarker(name, "Q")
                            /\ meta.is_monthly = HasMarker(name, "M")

\* 'Table 1.2.3. Foo Bar (A) (Q)' gives 1, 2, 3, annual and quarterly, not monthly
C14_Witness ==
    \E k \in 1..Len(NipaDocuments) :
        LET meta == NipaDocuments[k].meta
        IN  /\ StartsWith(NipaDocuments[k].table_description, ThreePartPrefix(1, 2, 3))
            /\ HasMarker(NipaDocuments[k].table_description, "Q")
            /\ meta.section_number = 1 /\ meta.subsection_number = 2
            /\ meta.table_number.v = 3
            /\ meta.is_annual /\ meta.is_quarterly /\ ~meta.is_monthly

\* ---------------------------------------------------------------------------
\* smart_search: the searches it issues
\* ---------------------------------------------------------------------------

\* limit=25 of the primary and of the short-description search (lines 98, 109)
SearchLimit == 25

\* limit=200 of the dataset listing (line 117)
ListingLimit == 200

\* the floor of anchor-dataset entries the broad strategy is to guarantee
AnchorFloor == 10

\* the dataset the broad strategy is to guarantee entries of
AnchorDataset == "NIPA"

\* the hybrid_text_vector_search calls one run of smart_search issues, in order, as far
\* as the run gets: the primary search, the short-description search, and the dataset
\* listing when both came back empty (lines 94-118); every call carries
\* dataset_name_filter=dataset_name
SearchesIssued(env, dataset_name) ==
    LET primary == [dataset_name_filter |-> dataset_name, limit |-> SearchLimit]
        listing == [dataset_name_filter |-> dataset_name, limit |-> ListingLimit]
    IN  IF env.fail \in {"embed_query", "extract_data_item", "embed_data_item"} THEN <<>>
        ELSE IF env.fail = "search_full" THEN <<primary>>
        ELSE IF env.fail = "search_short" THEN <<primary, primary>>
        ELSE IF env.full = <<>> /\ env.short = <<>> THEN <<primary, primary, listing>>
        ELSE <<primary, primary>>

\* the entries of a batch that belong to the anchor dataset
AnchorCount(batch) ==
    Cardinality({k \in 1..Len(batch) : batch[k].dataset_name = AnchorDataset})

RECURSIVE AppendUnseen(_, _)
\* batch followed by the entries of more whose _id the list does not hold yet
AppendUnseen(batch, more) ==
    IF more = <<>> THEN batch
    ELSE IF Head(more)._id \in IdsOf(batch) THEN AppendUnseen(batch, Tail(more))
    ELSE AppendUnseen(Append(batch, Head(more)), Tail(more))

\* C15 as claimed: when the first batch holds fewer anchor-dataset entries than the
\* floor, a search scoped to the anchor dataset with the floor as its limit is issued,
\* and the returned list is the batch in its order followed by the entries of the
\* second search whose identity the batch does not hold
C15_SupplementAppended ==
    (search.status = "ok" /\ search.env.full # <<>>
        /\ AnchorCount(search.env.full) < AnchorFloor) =>
        /\ \E k \in DOMAIN SearchesIssued(search.env, AnchorDataset) :
              /\ SearchesIssued(search.env, AnchorDataset)[k].limit = AnchorFloor
              /\ SearchesIssued(search.env, AnchorDataset)[k].dataset_name_filter
                    = AnchorDataset
        /\ search.results = AppendUnseen(search.env.full, search.env.short)

-----------------------------------------------------------------------------
(* mcp_server: the JSON-RPC loop over stdin and stdout *)

\* the lines one run of the server reads before the model stops feeding it
MaxLines == 2

\* Python values of the requests and responses; a str is the sequence of its characters,
\* or of the pieces it is compared by
PyNone == [kind |-> "None"]
PyStr(s) == [kind |-> "str", s |-> s]
PyInt(n) == [kind |-> "int", n |-> n]
PyList(items) == [kind |-> "list", items |-> items]
PyDict(d) == [kind |-> "dict", d |-> d]

\* not v
Falsy(v) ==
    \/ v.kind = "None"
    \/ v.kind = "str" /\ v.s = <<>>
    \/ v.kind = "int" /\ v.n = 0
    \/ v.kind = "list" /\ v.items = <<>>
    \/ v.kind = "dict" /\ v.d = <<>>

\* d.get(name) on a dict value
PyGet(d, name) == GetOr(d.d, name, PyNone)

\* json_response: the payload written to stdout as one line
JsonResponse(id_, result, error) ==
    IF error # PyNone
    THEN [jsonrpc |-> "2.0", id |-> id_, error |-> error]
    ELSE [jsonrpc |-> "2.0", id |-> id_, result |-> result]

\* list_tools(): the one tool of the server
ListTools ==
    PyList(<<[name |-> PyStr(<<"ask_bea">>), required |-> <<"question">>]>>)

\* call_tool(name, params): an error dict, AttributeError when params is no dict, or
\* the call of bea.ask
CallTool(name, params) ==
    IF name # PyStr(<<"ask_bea">>)
    THEN [kind |-> "result", v |-> PyDict([error |-> <<"Unknown tool ", name>>])]
    ELSE IF params.kind # "dict" THEN [kind |-> "raise", v |-> PyNone]
    ELSE LET question == PyGet(params, "question")
         IN  IF question.kind # "str" \/ Strip(question.s) = <<>>
             THEN [kind |-> "result",
                   v |-> PyDict([error |-> <<"question must be a non-empty string">>])]
             ELSE [kind |-> "ask", v |-> PyNone]

\* list_resources(): one entry per dataset of the catalog, named by d.get('dataset_name')
ListResources(h, fds) ==
    PyList([k \in 1..Len(fds) |->
              [name |-> IF Has(h[fds[k]], "dataset_name")
                        THEN PyStr(<<h[fds[k]].dataset_name>>) ELSE PyNone]])

\* body.split("#", 1): the dataset name before the first '#', or the whole body
UriDataset(body) ==
    IF body = <<>> \/ body[1] = "#" THEN "" ELSE body[1]

\* body.split("#", 1): the table name after the first '#', None without one
UriTable(body) ==
    LET hash == {k \in 1..Len(body) : body[k] = "#"}
        first == CHOOSE k \in hash : \A j \in hash : k <= j
    IN  IF hash = {} THEN NoneT
        ELSE IF first = Len(body) THEN Some(<<>>)
        ELSE Some(body[first + 1])

\* what read_resource returns of the context built: the context, or its ValueError
ReadContext(r) ==
    IF r.status = "ok" THEN [kind |-> "result", v |-> PyDict(r.heap[r.addr])]
    ELSE [kind |-> "raise", v |-> PyNone]

\* read_resource(uri, params); a uri is its scheme followed by the pieces of its body,
\* '#' one of them
ReadResource(h, fds, uri) ==
    IF uri.kind # "str" THEN [kind |-> "raise", v |-> PyNone]
    ELSE IF uri.s = <<>> \/ Head(uri.s) # "dataset://"
         THEN [kind |-> "result", v |-> PyDict([error |-> <<"Unsupported URI scheme">>])]
    ELSE ReadContext(GetQueryBuilderContext(h, fds, UriDataset(Tail(uri.s)),
                                            UriTable(Tail(uri.s)), FALSE))

\* dispatch(method, params)
Dispatch(h, fds, method, params) ==
    IF method = PyStr(<<"tools/list">>) THEN [kind |-> "result", v |-> ListTools]
    ELSE IF method = PyStr(<<"tools/call">>)
         THEN CallTool(PyGet(params, "name"),
                       GetOr(params.d, "params", PyDict(EmptyDict)))
    ELSE IF method = PyStr(<<"resources/list">>)
         THEN [kind |-> "result", v |-> ListResources(h, fds)]
    ELSE IF method = PyStr(<<"resources/read">>)
         THEN ReadResource(h, fds, PyGet(params, "uri"))
    ELSE [kind |-> "result", v |-> PyDict([error |-> <<"Unknown method ", method>>])]

\* isinstance(result, dict) and "error" in result and len(result) == 1
ErrorOnly(result) == result.kind = "dict" /\ DOMAIN result.d = {"error"}

\* lines 140-143: the response for what dispatch returned
ResultResponse(id_, result) ==
    IF ErrorOnly(result)
    THEN JsonResponse(id_, PyNone, [code |-> 0 - 32601, message |-> result.d.error])
    ELSE JsonResponse(id_, result, PyNone)

\* lines 144-145: the response for an exception dispatch raised
ServerErrorResponse(id_) ==
    JsonResponse(id_, PyNone, [code |-> 0 - 32000, message |-> <<"Server error: ">>])

\* lines 138-145: what main does with the outcome of dispatch
Dispatched(id_, r) ==
    IF r.kind = "ask" THEN [kind |-> "ask", response |-> PyNone]
    ELSE IF r.kind = "raise"
         THEN [kind |-> "write", response |-> ServerErrorResponse(id_)]
    ELSE [kind |-> "write", response |-> ResultResponse(id_, r.v)]

\* lines 127-145 for one non-blank line: the response written ("write"), the call of
\* bea.ask under way ("ask"), or the AttributeError of req.get on a value that is no
\* dict, which nothing catches ("crash")
Handle(h, fds, line) ==
    IF line.text = "invalid"
    THEN [kind |-> "write",
          response |-> JsonResponse(PyNone, PyNone,
                          [code |-> 0 - 32700, message |-> <<"Parse error: ">>])]
    ELSE IF line.value.kind # "dict" THEN [kind |-> "crash", response |-> PyNone]
    ELSE LET req == line.value
             id_ == PyGet(req, "id")
             method == PyGet(req, "method")
             params == GetOr(req.d, "params", PyDict(EmptyDict))
         IN  IF Falsy(method)
             THEN [kind |-> "write",
                   response |-> JsonResponse(id_, PyNone,
                                   [code |-> 0 - 32600,
                                    message |-> <<"Invalid Request: missing method">>])]
             ELSE Dispatched(id_, Dispatch(h, fds, method,
                                           IF params.kind = "dict" THEN params
                                           ELSE PyDict(EmptyDict)))

\* the request object with the members given; PyNone leaves a member out
Request(id_, method, params) ==
    LET present == {n \in {"id", "method", "params"} :
                        (CASE n = "id" -> id_ [] n = "method" -> method
                           [] OTHER -> params) # PyNone}
    IN  PyDict([n \in present |->
                  CASE n = "id" -> id_ [] n = "method" -> method [] OTHER -> params])

\* the names tools/call is given
ToolNames == {"ask_bea", "get_all_datasets", "get_tables_for_dataset",
              "fetch_data_from_bea_api"}

\* the 'params' members of the requests
RequestParams ==
    {PyNone, PyList(<<1>>), PyDict(EmptyDict)}
    \cup {PyDict([name |-> PyStr(<<n>>), params |-> PyDict([question |-> PyStr(<<"q">>)])]) :
            n \in ToolNames}
    \cup {PyDict([name |-> PyStr(<<"ask_bea">>)]),
          PyDict([name |-> PyStr(<<"ask_bea">>), params |-> PyList(<<1>>)]),
          PyDict([name |-> PyStr(<<"ask_bea">>),
                  params |-> PyDict([question |-> PyStr(<<" ">>)])])}
    \cup {PyDict([uri |-> PyStr(u)]) :
            u \in {<<"dataset://", "NIPA">>, <<"dataset://", "NIPA", "#", T1>>,
                   <<"dataset://", "Nope">>, <<"http://", "x">>}}

\* the methods of the requests
RequestMethods ==
    {PyNone, PyStr(<<>>)}
    \cup {PyStr(<<m>>) : m \in {"tools/list", "tools/call", "resources/list",
                            "resources/read", "bogus"}}

\* the non-blank lines: text that is no JSON, JSON that is no object, and requests
ServerLines ==
    {[text |-> "invalid", value |-> PyNone]}
    \cup {[text |-> "json", value |-> v] :
            v \in {PyNone, PyInt(42), PyStr(<<"x">>), PyList(<<1>>)}}
    \cup {[text |-> "json", value |-> Request(PyInt(8), m, p)] :
            m \in RequestMethods, p \in RequestParams}
    \cup {[text |-> "json", value |-> Request(PyNone, m, PyNone)] : m \in RequestMethods}

\* the state of bea.ask when it is entered
AskEntered == [pc |-> "select_dataset", calls |-> <<>>, fetched |-> <<>>]

\* the server after bea = BeaMcp(), about to test RUNNING
ServerInit ==
    /\ server = [pc |-> "loop", RUNNING |-> TRUE, read |-> 0, written |-> 0,
                 line |-> PyNone, response |-> PyNone]
    /\ heap = RankingCatalog
    /\ heap0 = RankingCatalog
    /\ full_datasets = <<DatasetAddr(1), DatasetAddr(2)>>
    /\ last = Idle
    /\ score = Idle
    /\ search = Idle
    /\ choose = Idle
    /\ ask = Idle
    /\ lookup = Idle

\* _handle_signal: SIGINT or SIGTERM clears RUNNING. The flag is read by the loop test
\* only, so a signal that arrives while a line is awaited or handled acts as one
\* arriving just before the next test
ServerSignal ==
    /\ server.pc = "loop"
    /\ server.RUNNING
    /\ server' = [server EXCEPT !.RUNNING = FALSE]
    /\ UNCHANGED <<heap, heap0, full_datasets, last, score, search, choose, ask, lookup>>

\* line 120: while RUNNING
ServerLoop ==
    /\ server.pc = "loop"
    /\ server' = [server EXCEPT !.pc = IF server.RUNNING THEN "readline" ELSE "stopped"]
    /\ UNCHANGED <<heap, heap0, full_datasets, last, score, search, choose, ask, lookup>>

\* lines 121-123: end of input
ServerEOF ==
    /\ server.pc = "readline"
    /\ server' = [server EXCEPT !.pc = "stopped"]
    /\ UNCHANGED <<heap, heap0, full_datasets, last, score, search, choose, ask, lookup>>

\* lines 124-126: a blank line
ServerBlank ==
    /\ server.pc = "readline"
    /\ server' = [server EXCEPT !.pc = "loop"]
    /\ UNCHANGED <<heap, heap0, full_datasets, last, score, search, choose, ask, lookup>>

\* the server after the line was read and handled with outcome r
LineHandled(line, r) ==
    IF r.kind = "crash"
    THEN [server EXCEPT !.read = @ + 1, !.line = line, !.response = PyNone,
                        !.pc = "crashed"]
    ELSE IF r.kind = "ask"
         THEN [server EXCEPT !.read = @ + 1, !.line = line, !.response = PyNone,
                             !.pc = "asking"]
    ELSE [server EXCEPT !.read = @ + 1, !.line = line, !.response = r.response,
                        !.pc = "loop", !.written = @ + 1]

\* bea.ask is entered when the line asks for it
AskAfter(handled) == IF handled.pc = "asking" THEN AskEntered ELSE ask

\* lines 121-145: a non-blank line is read and handled, up to the call of bea.ask
ServerRead ==
    /\ server.pc = "readline"
    /\ server.read < MaxLines
    /\ \E line \in ServerLines :
          /\ server' = LineHandled(line, Handle(heap, full_datasets, line))
          /\ ask' = AskAfter(server')
    /\ UNCHANGED <<heap, heap0, full_datasets, last, score, search, choose, lookup>>

\* bea.ask(question.strip()) runs
ServerAsk ==
    /\ server.pc = "asking"
    /\ AskNext

\* lines 138-145: bea.ask is over. Its payload is written as the result; an exception
\* is written as a server error; SystemExit from exit(1) is no Exception and ends the
\* process. The objects the call allocated are dropped.
ServerAsked ==
    /\ server.pc = "asking"
    /\ ask.pc \in {"returned", "raised", "exited"}
    /\ LET id_ == PyGet(server.line.value, "id")
       IN  server' =
              IF ask.pc = "exited" THEN [server EXCEPT !.pc = "exited"]
              ELSE [server EXCEPT
                      !.pc = "loop", !.written = @ + 1,
                      !.response = IF ask.pc = "returned"
                                   THEN ResultResponse(id_, PyDict(ask.payload))
                                   ELSE ServerErrorResponse(id_)]
    /\ ask' = Idle
    /\ heap' = heap0
    /\ UNCHANGED <<heap0, full_datasets, last, score, search, choose, lookup>>

ServerNext ==
    \/ ServerSignal
    \/ ServerLoop
    \/ ServerEOF
    \/ ServerBlank
    \/ ServerRead
    \/ ServerAsk
    \/ ServerAsked

SpecServer == ServerInit /\ [][ServerNext]_vars

\* the server is between two requests: the last non-blank line read has been handled
Handled == server.pc \in {"loop", "readline", "stopped"} /\ server.read > 0

\* the last line read is a JSON object
ObjectLine == server.line.text = "json" /\ server.line.value.kind = "dict"

\* the id a response to the last line read is to carry
RequestId ==
    IF ObjectLine THEN PyGet(server.line.value, "id") ELSE PyNone

\* the last line read is a well-formed tools/call of ask_bea
AskBeaLine ==
    /\ ObjectLine
    /\ PyGet(server.line.value, "method") = PyStr(<<"tools/call">>)
    /\ PyGet(server.line.value, "params").kind = "dict"
    /\ PyGet(PyGet(server.line.value, "params"), "name") = PyStr(<<"ask_bea">>)
    /\ PyGet(PyGet(server.line.value, "params"), "params").kind = "dict"
    /\ PyGet(PyGet(PyGet(server.line.value, "params"), "params"), "question").kind = "str"

\* C16 as claimed: every non-blank line read gets exactly one response and the server
\* keeps serving; the response has jsonrpc '2.0', the request's id (null for a line that
\* is no JSON) and exactly one of result and error
C16_OneResponsePerLine ==
    /\ server.pc \notin {"crashed", "exited"}
    /\ server.pc \in {"loop", "readline", "stopped"} => server.written = server.read
    /\ Handled =>
          /\ server.response # PyNone
          /\ server.response.jsonrpc = "2.0"
          /\ server.response.id = RequestId
          /\ Has(server.response, "result") # Has(server.response, "error")

\* C17 as claimed: the result of tools/list names the four tools, and no tools/call of
\* one of them is answered 'Unknown tool'
C17_FourToolsListedAndCallable ==
    (Handled /\ ObjectLine) =>
        LET method == PyGet(server.line.value, "method")
            params == PyGet(server.line.value, "params")
        IN  /\ method = PyStr(<<"tools/list">>) =>
                  /\ Has(server.response, "result")
                  /\ \A n \in ToolNames :
                        \E k \in 1..Len(server.response.result.items) :
                            server.response.result.items[k].name = PyStr(<<n>>)
            /\ (/\ method = PyStr(<<"tools/call">>)
                /\ params.kind = "dict"
                /\ PyGet(params, "name") \in {PyStr(<<n>>) : n \in ToolNames}) =>
                  ~(/\ Has(server.response, "error")
                    /\ Head(server.response.error.message) = "Unknown tool ")

\* C19 as claimed: whatever external call fails while a question is answered, the
\* process is not ended and the ask_bea request gets its response
C19_FailuresNeverEndTheServer ==
    /\ server.pc # "exited"
    /\ (Handled /\ AskBeaLine) =>
          /\ server.written = server.read
          /\ server.response # PyNone

-----------------------------------------------------------------------------
(* Properties of one run of BeaMcp.ask *)

\* C18: a payload ask returns carries the question and a fetch_status of 'ok', 'error'
\* or 'no_datasets'; it is 'no_datasets' exactly when the retrieval found nothing and
\* stage 1 so left no candidate, and then nothing was called after stage 1: no stage 2,
\* no context, no generation, no fetch
C18_PayloadStatus ==
    ask.pc = "returned" =>
        /\ Has(ask.payload, "question")
        /\ ask.payload.question = Question
        /\ Has(ask.payload, "fetch_status")
        /\ ask.payload.fetch_status \in {"ok", "error", "no_datasets"}
        /\ ask.payload.fetch_status = "no_datasets" <=> ~Has(ask, "top10")
        /\ ask.payload.fetch_status = "no_datasets" <=> ask.results = <<>>
        /\ ask.payload.fetch_status = "no_datasets" =>
              /\ ask.calls = <<"select_dataset", "smart_search", "score_and_select_top">>
              /\ ask.fetched = <<>>
              /\ DOMAIN ask.payload = {"question", "fetch_status"}
        /\ ask.payload.fetch_status # "no_datasets" => Len(ask.fetched) >= 1

\* the searches and the listing found nothing: ask returned after stage 1
C18_Witness ==
    /\ ask.pc = "returned"
    /\ ask.results = <<>>
    /\ Len(ask.calls) = 3
    /\ ask.payload.fetch_status = "no_datasets"

\* the steps of ask in the order of lines 245-322
Pipeline ==
    <<"select_dataset", "smart_search", "score_and_select_top", "choose_datasets_to_query",
      "get_query_builder_context", "build_bea_params_with_llm", "fetch_data_from_bea_api",
      "correct_bea_params_with_llm", "fetch_data_from_bea_api">>

\* the steps taken so far are the first steps of the pipeline; a correction follows a
\* failed first fetch; the context held is the one the catalog gives for the chosen
\* entry; the first fetch was given the params assembled from that context
StepsInOrder ==
    /\ Len(ask.calls) <= Len(Pipeline)
    /\ \A k \in 1..Len(ask.calls) : ask.calls[k] = Pipeline[k]
    /\ Calls("correct_bea_params_with_llm") = 1 =>
          Len(ask.fetched) >= 1 /\ ~ask.fetched[1].ok
    /\ Len(ask.fetched) = 2 => ~ask.fetched[1].ok
    /\ Has(ask, "context") =>
          LET built == GetQueryBuilderContext(heap0, full_datasets, ask.chosen.dataset_name,
                                              ask.chosen.table_name, FALSE)
          IN  /\ built.status = "ok"
              /\ Deref(heap, ask.context) = Deref(built.heap, built.addr)
    /\ Len(ask.fetched) >= 1 =>
          /\ ask.fetched[1].params = ask.bea_params
          /\ \E gen \in GenRuns :
                gen.ok /\ ask.bea_params = BuildBeaParams(heap[ask.context], gen)

\* the entry ask goes on with is the top of the stage-2 selection
ChosenIsTop ==
    (ask.pc = "choosing" /\ ask'.pc = "context") =>
        /\ choose.status = "done"
        /\ ask'.chosen = choose.top[1]
        /\ \A k \in 1..Len(choose.all_scored) :
              ask'.chosen.score >= choose.all_scored[k].score

\* C20: the steps of one run come in the order select, retrieve, rank stage 1, rank
\* stage 2, build context, assemble params, fetch, and after a failed fetch correct and
\* one more fetch; the context is built for the top of the stage-2 selection and the
\* first fetch is given the params assembled from that context
C20_StepsInOrder == [](ask.pc \in {"select_dataset", "smart_search", "score", "choose",
                                   "choosing", "context", "build", "fetch", "correct",
                                   "refetch", "returned", "raised", "exited"}
                       /\ StepsInOrder)
                    /\ [][ChosenIsTop]_vars

\* a run through all nine steps whose stage 2 ranked two entries
C20_Witness ==
    /\ ask.pc = "returned"
    /\ ask.calls = Pipeline
    /\ Len(ask.fetched) = 2
    /\ Len(ask.top10) >= 2

-----------------------------------------------------------------------------
(* The two lists score_and_select_top returns *)

\* the positions of the top list that hold the input candidate i
TopPlaces(i) == {k \in 1..Len(score.top) : score.top[k]._id = score.results[i]._id}

\* C21 as claimed: the top list has at most top_n entries in descending confidence and
\* holds each input candidate at most once; the full list has one entry per input
\* candidate; a top entry has the same confidence in both lists and no entry left out
\* of the top list has a higher one; an entry left out has confidence 0 unless the top
\* list is full
C21_TopIsBestOfFull ==
    score.status = "done" =>
        LET n == Len(score.results)
        IN  /\ Len(score.top) <= score.top_n
            /\ \A k \in 1..(Len(score.top) - 1) :
                  score.top[k].confidence >= score.top[k + 1].confidence
            /\ \A i \in 1..n : Cardinality(TopPlaces(i)) <= 1
            /\ Len(score.all) = n
            /\ \A i \in 1..n : score.all[i]._id = score.results[i]._id
            /\ \A i \in 1..n : \A k \in TopPlaces(i) :
                  score.all[i].confidence = score.top[k].confidence
            /\ \A i \in 1..n : TopPlaces(i) = {} =>
                  /\ \A k \in 1..Len(score.top) :
                        score.all[i].confidence <= score.top[k].confidence
                  /\ score.all[i].confidence > 0 => Len(score.top) = score.top_n

-----------------------------------------------------------------------------
(* Failures inside choose_datasets_to_query *)

\* the candidate has no dataset_name, or the catalog has no dataset of that name
NoContextFor(ds) ==
    \/ ~Has(ds, "dataset_name")
    \/ \A k \in 1..Len(full_datasets) : heap0[full_datasets[k]].DatasetName # ds.dataset_name

\* C22: a candidate with no dataset_name, or of a dataset the catalog lacks, makes the
\* call raise when the loop comes to it, with no selection returned; the loop never
\* passes such a candidate, so a call that returns had none
C22_ContextFailureIsFatal ==
    /\ choose.status \in {"running", "done"} =>
          \A k \in 1..(choose.i - 1) : ~NoContextFor(choose.candidate_results[k])
    /\ choose.status = "running" =>
          /\ choose.i <= Len(choose.candidate_results) + 1
          /\ Len(choose.scored) <= choose.i - 1
    /\ choose.status = "done" =>
          \A k \in 1..Len(choose.candidate_results) :
              ~NoContextFor(choose.candidate_results[k])
    /\ choose.status = "raised" =>
          /\ NoContextFor(choose.candidate_results[choose.i])
          /\ ~Has(choose, "top")
          /\ ~Has(choose, "all_scored")

\* the third candidate is of a dataset the catalog lacks; the two before it were scored
C22_Witness ==
    /\ choose.status = "raised"
    /\ choose.i = 3
    /\ Len(choose.scored) = 2
    /\ Has(choose.candidate_results[3], "dataset_name")

\* one pass of the loop that went on to the next candidate
CandidatePassed ==
    /\ choose.status = "running"
    /\ choose'.status = "running"
    /\ choose'.i = choose.i + 1

\* the large scorer was asked only after a capacity failure of the medium one, and then
\* once; the candidate was left out exactly when the medium scorer failed otherwise or
\* both failed; else its entry was appended
ScoredOrLeftOut ==
    CandidatePassed =>
        /\ choose'.large \in {"none", "ok", "failed"}
        /\ choose'.large # "none" <=> choose'.medium = "capacity"
        /\ choose'.scored = choose.scored <=>
              \/ choose'.medium = "failed"
              \/ (choose'.medium = "capacity" /\ choose'.large = "failed")
        /\ choose'.scored # choose.scored =>
              /\ Len(choose'.scored) = Len(choose.scored) + 1
              /\ SubSeq(choose'.scored, 1, Len(choose.scored)) = choose.scored
              /\ choose'.scored[Len(choose'.scored)].dataset_name
                    = choose.candidate_results[choose.i].dataset_name

-----------------------------------------------------------------------------
(* longest_common_substring on lists of short strings *)

\* the longest list of strings given, and the longest string built from the alphabet
MaxStrings == 2
MaxLcsLen == 2

LcsAlphabet == {"a", "b", " "}

\* the strings given: every short one, and longer ones with a blank at an end or inside
LcsStrings ==
    BoundedSeq(LcsAlphabet, MaxLcsLen)
        \cup { <<"a", "b", " ">>, <<" ", "a", "b">>, <<"a", " ", "b">>,
               <<"a", "b", "a">>, <<"b", " ", "a", "b">> }

LcsInit ==
    /\ \E strings \in BoundedSeq(LcsStrings, MaxStrings) :
          lookup = [status |-> "lcs called", strings |-> strings]
    /\ heap = <<>>
    /\ heap0 = <<>>
    /\ full_datasets = <<>>
    /\ last = Idle
    /\ score = Idle
    /\ search = Idle
    /\ choose = Idle
    /\ ask = Idle
    /\ server = Idle

LcsCall ==
    /\ lookup.status = "lcs called"
    /\ lookup' = [status |-> "lcs done", strings |-> lookup.strings,
                  result |-> LongestCommonSubstring(lookup.strings)]
    /\ UNCHANGED <<heap, heap0, full_datasets, last, score, search, choose, ask, server>>

LcsNext == LcsCall

SpecLcs == LcsInit /\ [][LcsNext]_vars

\* sub is in every one of the strings
CommonTo(sub, strings) == \A k \in 1..Len(strings) : Contains(sub, strings[k])

\* the non-empty substrings of s, as pairs of their first and last position
Substrings(s) == {ij \in (1..Len(s)) \X (1..Len(s)) : ij[1] <= ij[2]}

\* the substring of the reference from ij[1] to ij[2] is common to the strings, none
\* longer is, and none as long starts further left
LeftmostLongest(ij, strings) ==
    /\ CommonTo(SubSeq(strings[1], ij[1], ij[2]), strings)
    /\ \A o \in Substrings(strings[1]) :
          CommonTo(SubSeq(strings[1], o[1], o[2]), strings) =>
              \/ o[2] - o[1] < ij[2] - ij[1]
              \/ (o[2] - o[1] = ij[2] - ij[1] /\ ij[1] <= o[1])

-----------------------------------------------------------------------------
(* refresh_data_lookup: embedding the documents and storing them *)

\* the longest list of documents given to refresh_data_lookup
MaxRefreshDocs == 3

\* EXPECTED_DIM, and the length of a vector of another dimensionality
EXPECTED_DIM == 1536
OtherDim == EXPECTED_DIM - 1

\* a document's embedding is the list of the lengths of its vector: none for a document
\* without the key
Embeddings == {<<>>, <<EXPECTED_DIM>>, <<OtherDim>>}

RefreshDocuments ==
    {[table_name |-> "T", embedding |-> e] : e \in Embeddings}

\* what client.embeddings.create answers for n texts: it fails, or gives n vectors
EmbedReplies(n) ==
    {[status |-> "raised", dims |-> <<>>]}
        \cup {[status |-> "ok", dims |-> d] : d \in [1..n -> {EXPECTED_DIM, OtherDim}]}

\* _do_embed: the vectors, or the error of the client or of a vector of another length
DoEmbed(reply) ==
    IF reply.status = "ok" /\ \E k \in 1..Len(reply.dims) : reply.dims[k] # EXPECTED_DIM
    THEN [status |-> "raised", dims |-> <<>>]
    ELSE reply

\* embed_documents: every document gets its vector, or the error of _do_embed
EmbedDocuments(docs, reply) ==
    LET vectors == DoEmbed(reply)
    IN  IF vectors.status = "raised" THEN [status |-> "raised", docs |-> docs]
        ELSE [status |-> "ok",
              docs |-> [k \in 1..Len(docs) |->
                          [docs[k] EXCEPT !.embedding = <<vectors.dims[k]>>]]]

\* lines 181-186: the documents as they are inserted; an error of embed_documents is
\* logged and the documents stay as given
RefreshEmbedded(docs, reply) ==
    IF docs # <<>> /\ docs[1].embedding = <<>>
    THEN EmbedDocuments(docs, reply).docs
    ELSE docs

RefreshInit ==
    /\ \E docs \in BoundedSeq(RefreshDocuments, MaxRefreshDocs) :
       \E reply \in EmbedReplies(Len(docs)) :
       \E stored \in {<<>>, <<[table_name |-> "T", embedding |-> <<EXPECTED_DIM>>]>>} :
          lookup = [status |-> "refresh called", documents |-> docs, reply |-> reply,
                    collection |-> stored, embed |-> "none"]
    /\ heap = <<>>
    /\ heap0 = <<>>
    /\ full_datasets = <<>>
    /\ last = Idle
    /\ score = Idle
    /\ search = Idle
    /\ choose = Idle
    /\ ask = Idle
    /\ server = Idle

\* lines 177-179: the collection is emptied
RefreshClear ==
    /\ lookup.status = "refresh called"
    /\ lookup' = [lookup EXCEPT !.status = "refresh cleared", !.collection = <<>>]
    /\ UNCHANGED <<heap, heap0, full_datasets, last, score, search, choose, ask, server>>

\* lines 181-186: the documents are embedded when the first one has no embedding
RefreshEmbed ==
    /\ lookup.status = "refresh cleared"
    /\ lookup' = [lookup EXCEPT
                    !.status = "refresh embedded",
                    !.documents = RefreshEmbedded(lookup.documents, lookup.reply),
                    !.embed = IF lookup.documents # <<>> /\ lookup.documents[1].embedding = <<>>
                              THEN EmbedDocuments(lookup.documents, lookup.reply).status
                              ELSE "none"]
    /\ UNCHANGED <<heap, heap0, full_datasets, last, score, search, choose, ask, server>>

\* lines 187-199: insert_many refuses an empty list; otherwise the documents are stored
\* and True is returned
RefreshInsert ==
    /\ lookup.status = "refresh embedded"
    /\ lookup' = IF lookup.documents = <<>>
                 THEN [lookup EXCEPT !.status = "refresh raised"]
                 ELSE [lookup EXCEPT !.status = "refresh done",
                                     !.collection = lookup.documents]
    /\ UNCHANGED <<heap, heap0, full_datasets, last, score, search, choose, ask, server>>

RefreshNext == RefreshClear \/ RefreshEmbed \/ RefreshInsert

SpecRefresh == RefreshInit /\ [][RefreshNext]_vars

\* C25: every stored document has an embedding of the expected length, and a refresh
\* whose embedding failed ends with an error
C25_NoDocumentStoredWithoutEmbedding ==
    lookup.status \in {"refresh called", "refresh cleared", "refresh embedded",
                       "refresh done", "refresh raised"} =>
        /\ \A k \in 1..Len(lookup.collection) :
              lookup.collection[k].embedding = <<EXPECTED_DIM>>
        /\ lookup.embed = "raised" => lookup.status # "refresh done"

-----------------------------------------------------------------------------
(* smart_search: a search that fails, and the listing of the dataset *)

\* C26: when the primary or the short-description search fails, both searches have
\* still been issued and smart_search returns the results of the other
C26_OtherSearchStillRuns ==
    (search.status \in {"ok", "raised", "exit"}
        /\ search.env.fail \in {"search_full", "search_short"}) =>
        /\ Len(SearchesIssued(search.env, AnchorDataset)) >= 2
        /\ search.status = "ok"
        /\ IdsOf(search.env.full) \cup IdsOf(search.env.short) \subseteq IdsOf(search.results)

\* the most table documents in the index
MaxIndex == 2

\* the table documents the index may hold, of two datasets
IndexDocuments ==
    {[Doc(i) EXCEPT !.dataset_name = d] : i \in 1..MaxIndex, d \in {AnchorDataset, "Regional"}}

\* the documents of a dataset in the index, in its order
OfDataset(index, dataset_name) ==
    SelectSeq(index, LAMBDA doc : doc.dataset_name = dataset_name)

\* hybrid_text_vector_search(dataset_name_filter=dataset_name, limit=limit) with neither
\* text_query nor query_vector: the single-modality paths and the compound search are
\* passed over (lines 453-458), vector_results and text_docs stay empty (505-513), the
\* filter on dataset_name has nothing to filter (516-520) and text_docs[:limit] is
\* returned (540)
HybridSearchNoQuery(index, dataset_name_filter, limit) ==
    LET vector_results == <<>>
        text_docs == <<>>
    IN  IF vector_results # <<>> /\ text_docs # <<>> THEN <<>>
        ELSE IF vector_results # <<>> THEN Slice(vector_results, 1, limit)
        ELSE Slice(text_docs, 1, limit)

\* runs of smart_search over an index: the two searches find documents of the dataset,
\* the listing is what hybrid_text_vector_search returns for it
ListingRuns ==
    {[fail |-> "none", full |-> f, short |-> s,
      listing |-> HybridSearchNoQuery(index, d, ListingLimit),
      index |-> index, dataset_name |-> d] :
        index \in {i \in BoundedSeq(IndexDocuments, MaxIndex) : NoRepeat(i)},
        d \in {AnchorDataset, "Regional"},
        f \in BoundedSeq(IndexDocuments, MaxIndex), s \in BoundedSeq(IndexDocuments, 1)}

ListingInit ==
    /\ \E env \in ListingRuns :
          /\ IdsOf(OfDataset(env.full \o env.short, env.dataset_name))
                = IdsOf(env.full \o env.short)
          /\ \A k \in 1..Len(env.full \o env.short) :
                \E j \in 1..Len(env.index) : env.index[j] = (env.full \o env.short)[k]
          /\ search = [status |-> "called", env |-> env]
    /\ heap = <<>>
    /\ heap0 = <<>>
    /\ full_datasets = <<>>
    /\ last = Idle
    /\ score = Idle
    /\ choose = Idle
    /\ ask = Idle
    /\ lookup = Idle
    /\ server = Idle

SpecListing == ListingInit /\ [][SearchNext]_vars

\* the listing among the searches issued
ListingIssued(env) ==
    \E k \in DOMAIN SearchesIssued(env, env.dataset_name) :
        SearchesIssued(env, env.dataset_name)[k].limit = ListingLimit

\* C27: the listing is issued exactly when both searches came back empty, for the
\* chosen dataset and with limit 200; smart_search then returns documents of that
\* dataset only, at most 200, and at least one when the index holds one
C27_ListingWhenBothEmpty ==
    search.status = "ok" =>
        LET env == search.env
            issued == SearchesIssued(env, env.dataset_name)
        IN  /\ ListingIssued(env) <=> (env.full = <<>> /\ env.short = <<>>)
            /\ \A k \in DOMAIN issued : issued[k].dataset_name_filter = env.dataset_name
            /\ (env.full = <<>> /\ env.short = <<>>) =>
                  /\ Len(search.results) <= ListingLimit
                  /\ \A k \in 1..Len(search.results) :
                        search.results[k].dataset_name = env.dataset_name
                  /\ OfDataset(env.index, env.dataset_name) # <<>> =>
                        search.results # <<>>

-----------------------------------------------------------------------------
(* The value lists of a table-scoped Context *)

\* some entry of the list is a dict with a TableName
CarriesTableName(values) ==
    \E k \in 1..Len(values) : IsDict(values[k]) /\ Has(values[k], "TableName")

\* the entries of the list whose TableName is the table
OfTable(values, table) ==
    SelectSeq(values, LAMBDA v : IsDict(v) /\ Has(v, "TableName") /\ v.TableName = table)

\* the entries of the list whose Desc starts with '[table]', whatever the case
OfLine(values, table) ==
    SelectSeq(values, LAMBDA v :
        /\ IsDict(v)
        /\ Has(v, "Desc")
        /\ StartsWith(LowerStr(v.Desc), <<"[">> \o LowerStr(table) \o <<"]">>))

-----------------------------------------------------------------------------
(* The score read from a scorer reply *)

\* the position of the first digit of the text, 0 when it has none
FirstDigitAt(text) ==
    IF \E k \in 1..Len(text) : text[k] \in Digits
    THEN CHOOSE k \in 1..Len(text) :
            text[k] \in Digits /\ \A j \in 1..(k - 1) : text[j] \notin Digits
    ELSE 0

\* the last position of the run of digits that starts at position k
RunEnd(text, k) ==
    CHOOSE e \in k..Len(text) :
        /\ \A j \in k..e : text[j] \in Digits
        /\ (e = Len(text) \/ text[e + 1] \notin Digits)

\* the first integer written in the text, at most 100, and 0 when there is none
FirstInteger(text) ==
    LET k == FirstDigitAt(text)
        n == IF k = 0 THEN 0 ELSE DigitsValue(SubSeq(text, k, RunEnd(text, k)))
    IN  IF n > 100 THEN 100 ELSE n

\* C29: the score of the candidate scored last is the first integer of the reply it
\* was scored from, limited to 0..100, and 0 for a reply without an integer
C29_ScoreIsFirstInteger ==
    (choose.status \in {"running", "done"} /\ ~choose.content.none) =>
        choose.scored[Len(choose.scored)].score = FirstInteger(choose.content.v)

-----------------------------------------------------------------------------
(* BeaMcp.ask when no candidate could be scored *)

\* choose_datasets_to_query went through every candidate and scored none
NothingScored ==
    /\ ask.pc = "choosing"
    /\ choose.status = "done"
    /\ choose.candidate_results # <<>>
    /\ choose.top = <<>>

\* C30: when every candidate of a non-empty list was passed over, ask goes on to
\* return a payload and does not raise
C30_NothingScoredIsNotFatal == [][NothingScored => ask'.pc # "raised"]_vars

====
